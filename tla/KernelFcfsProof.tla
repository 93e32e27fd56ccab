-------------------------- MODULE KernelFcfsProof --------------------------
(***************************************************************************)
(* Proofs about KernelFcfs for every number of priorities, devices and     *)
(* mutexes: each task is in one place, and the mutexes of the lab4 part1   *)
(* kernel serve in order.  The lists that are linked through the control   *)
(* blocks are sequences: an invariant gives each its sequence, and every   *)
(* step does to the sequence what the code means to do to the list.        *)
(***************************************************************************)
EXTENDS KernelFcfs, FiniteSetTheorems, SequenceTheorems, WellFoundedInduction, TLAPS

-----------------------------------------------------------------------------
(* Lists and their sequences.                                              *)

\* The list that starts at h and follows link is s: no block twice, NULL at the end.
IsList(link, s, h) ==
    /\ s \in Seq(Tcb)
    /\ \A j, k \in 1..Len(s) : s[j] = s[k] => j = k
    /\ h = IF Len(s) = 0 THEN NULL ELSE s[1]
    /\ \A k \in 1..Len(s) : link[s[k]] = IF k = Len(s) THEN NULL ELSE s[k + 1]

On(s) == {s[k] : k \in 1..Len(s)}

\* What starts at h is a list.
Listed(link, h) == \E s \in Seq(Tcb) : IsList(link, s, h)

\* A property of the positions of a sequence that the first has and each hands on to
\* the next holds of all: S holds those that have it.
LEMMA EveryPosition ==
    ASSUME NEW n \in Nat, NEW S, n > 0 => 1 \in S,
           \A k \in 1..n : k > 1 /\ k - 1 \in S => k \in S
    PROVE  1..n \subseteq S
<1> SUFFICES ASSUME 1..n \ S # {} PROVE FALSE
  OBVIOUS
<1> DEFINE bad == 1..n \ S
<1>1. bad \subseteq Nat
  OBVIOUS
<1>2. PICK k \in bad : \A j \in bad : ~(<<j, k>> \in OpToRel(<, Nat))
  BY <1>1, WFMin, NatLessThanWellFounded
<1>3. k \in 1..n /\ k \notin S /\ k > 1
  <2>1. k \in 1..n /\ k \notin S
    OBVIOUS
  <2> QED BY <2>1
<1>4. k - 1 \in 1..n /\ k - 1 < k
  BY <1>3
<1>5. k - 1 \notin bad
  BY <1>1, <1>2, <1>3, <1>4 DEF OpToRel
<1> QED BY <1>3, <1>4, <1>5

LEMMA NullIsNoBlock == NULL \notin Tcb
BY NullAssumption DEF Tcb, Prio

\* What a walk visits is what is on the sequence.
LEMMA ListReach ==
    ASSUME NEW link, NEW s, NEW h, IsList(link, s, h)
    PROVE  Reach(link, h) = On(s)
<1>1. /\ s \in Seq(Tcb) /\ Len(s) \in Nat /\ \A k \in 1..Len(s) : s[k] \in Tcb
  BY DEF IsList
<1>2. h \in Tcb => h \in On(s)
  BY <1>1, NullIsNoBlock DEF IsList, On
<1>3. \A u \in On(s) : link[u] # NULL => link[u] \in On(s)
  <2> SUFFICES ASSUME NEW k \in 1..Len(s), link[s[k]] # NULL PROVE link[s[k]] \in On(s)
    BY DEF On
  <2>1. k # Len(s) /\ link[s[k]] = s[k + 1] /\ k + 1 \in 1..Len(s)
    BY <1>1 DEF IsList
  <2> QED BY <2>1 DEF On
<1>4. On(s) \in SUBSET Tcb
  BY <1>1 DEF On
<1>5. Reach(link, h) \subseteq On(s)
  BY <1>2, <1>3, <1>4 DEF Reach
<1>6. On(s) \subseteq Reach(link, h)
  <2> SUFFICES ASSUME NEW S \in SUBSET Tcb, h \in Tcb => h \in S,
                      \A u \in S : link[u] # NULL => link[u] \in S
               PROVE  On(s) \subseteq S
    BY <1>4 DEF Reach
  <2> DEFINE P == {k \in 1..Len(s) : s[k] \in S}
  <2>1. Len(s) > 0 => 1 \in P
    BY <1>1 DEF IsList
  <2>2. ASSUME NEW k \in 1..Len(s), k > 1, k - 1 \in P PROVE k \in P
    <3>1. k - 1 \in 1..Len(s) /\ s[k - 1] \in S /\ k - 1 # Len(s) /\ (k - 1) + 1 = k
      BY <1>1, <2>2
    <3>2. link[s[k - 1]] = s[k]
      BY <3>1 DEF IsList
    <3>3. s[k] # NULL
      BY <1>1, NullIsNoBlock
    <3> QED BY <3>1, <3>2, <3>3
  <2> HIDE DEF P
  <2>3. 1..Len(s) \subseteq P
    BY <1>1, <2>1, <2>2, EveryPosition
  <2> QED BY <2>3 DEF On, P
<1> QED BY <1>5, <1>6

\* The blocks of a list are as many as its sequence is long.
LEMMA ListCardinality ==
    ASSUME NEW link, NEW s, NEW h, IsList(link, s, h)
    PROVE  Cardinality(On(s)) = Len(s) /\ Len(s) \in Nat
<1>1. s \in Seq(Tcb) /\ Len(s) \in Nat /\ \A j, k \in 1..Len(s) : s[j] = s[k] => j = k
  BY DEF IsList
<1> DEFINE f == [k \in 1..Len(s) |-> s[k]]
<1>2. f \in Bijection(1..Len(s), On(s))
  BY <1>1 DEF Bijection, Injection, Surjection, IsInjective, On
<1>3. IsFiniteSet(1..Len(s)) /\ Cardinality(1..Len(s)) = Len(s)
  <2> DEFINE n == Len(s)
  <2>1. n \in Int /\ 1 \in Int /\ n \in Nat
    BY <1>1
  <2> HIDE DEF n
  <2>2. IsFiniteSet(1..n) /\ Cardinality(1..n) = IF 1 > n THEN 0 ELSE n - 1 + 1
    BY <2>1, FS_Interval
  <2>3. IsFiniteSet(1..n) /\ Cardinality(1..n) = n
    BY <2>1, <2>2
  <2> QED BY <2>3 DEF n
<1>4. ExistsBijection(1..Len(s), On(s))
  BY <1>2 DEF ExistsBijection
<1> QED BY <1>1, <1>3, <1>4, FS_Bijection

\* A list has one sequence, and InOrder is it.
LEMMA ListInOrder ==
    ASSUME NEW link, NEW s, NEW h, IsList(link, s, h)
    PROVE  InOrder(link, h) = s
<1> DEFINE on == Reach(link, h)
           good(q) == \A k \in DOMAIN q : q[k] = IF k = 1 THEN h ELSE link[q[k - 1]]
<1>1. /\ s \in Seq(Tcb) /\ Len(s) \in Nat /\ on = On(s) /\ Cardinality(on) = Len(s)
      /\ s \in [1..Len(s) -> on] /\ DOMAIN s = 1..Len(s)
  <2>1. s \in Seq(Tcb) /\ Len(s) \in Nat /\ DOMAIN s = 1..Len(s)
    BY DEF IsList
  <2>2. on = On(s) /\ Cardinality(on) = Len(s)
    BY ListReach, ListCardinality
  <2>3. \A k \in 1..Len(s) : s[k] \in on
    BY <2>2 DEF On
  <2>4. s = [k \in 1..Len(s) |-> s[k]]
    BY <2>1
  <2> HIDE DEF on
  <2> QED BY <2>1, <2>2, <2>3, <2>4
<1> HIDE DEF on
<1>2. good(s)
  <2> SUFFICES ASSUME NEW k \in 1..Len(s) PROVE s[k] = IF k = 1 THEN h ELSE link[s[k - 1]]
    BY <1>1
  <2>1. CASE k = 1
    <3>1. Len(s) # 0
      BY <1>1
    <3>2. h = s[1]
      BY <3>1 DEF IsList
    <3> QED BY <2>1, <3>2
  <2>2. CASE k # 1
    <3>1. k - 1 \in 1..Len(s) /\ k - 1 # Len(s) /\ (k - 1) + 1 = k
      BY <1>1, <2>2
    <3>2. link[s[k - 1]] = s[(k - 1) + 1]
      BY <3>1 DEF IsList
    <3>3. link[s[k - 1]] = s[k]
      BY <3>1, <3>2
    <3> QED BY <2>2, <3>3
  <2> QED BY <2>1, <2>2
<1>3. ASSUME NEW q \in [1..Len(s) -> on], good(q)
      PROVE  q = s
  <2>0. ASSUME NEW k \in 1..Len(s)
        PROVE  /\ q[k] = IF k = 1 THEN h ELSE link[q[k - 1]]
               /\ s[k] = IF k = 1 THEN h ELSE link[s[k - 1]]
    <3>1. DOMAIN q = 1..Len(s) /\ DOMAIN s = 1..Len(s)
      BY <1>1
    <3> QED BY <1>2, <1>3, <3>1
  <2> HIDE DEF good
  <2> DEFINE P == {k \in 1..Len(s) : q[k] = s[k]}
  <2>1. Len(s) > 0 => 1 \in P
    <3> SUFFICES ASSUME Len(s) > 0 PROVE 1 \in P
      OBVIOUS
    <3>1. 1 \in 1..Len(s)
      BY <1>1
    <3> QED BY <2>0, <3>1
  <2>2. ASSUME NEW k \in 1..Len(s), k > 1, k - 1 \in P PROVE k \in P
    <3>1. q[k] = link[q[k - 1]] /\ s[k] = link[s[k - 1]]
      BY <2>0, <2>2
    <3> QED BY <2>2, <3>1
  <2> HIDE DEF P
  <2>3. 1..Len(s) \subseteq P
    BY <1>1, <2>1, <2>2, EveryPosition
  <2> QED BY <1>1, <2>3 DEF P
<1>4. InOrder(link, h) = CHOOSE q \in [1..Len(s) -> on] : good(q)
  BY <1>1 DEF InOrder, on
<1> HIDE DEF good
<1> QED BY <1>1, <1>2, <1>3, <1>4

\* Links of blocks that are not on the list do not matter.
LEMMA ListFrame ==
    ASSUME NEW link, NEW s, NEW h, IsList(link, s, h),
           NEW link2, \A u \in On(s) : link2[u] = link[u]
    PROVE  IsList(link2, s, h)
BY DEF IsList, On

\* A block in front of the list.
LEMMA ListPush ==
    ASSUME NEW link, NEW s, NEW h, IsList(link, s, h), NEW c \in Tcb, c \notin On(s),
           NEW link2, link2[c] = h, \A u \in On(s) : link2[u] = link[u]
    PROVE  IsList(link2, <<c>> \o s, c) /\ On(<<c>> \o s) = On(s) \cup {c}
<1> DEFINE q == <<c>> \o s
<1>1. /\ s \in Seq(Tcb) /\ Len(s) \in Nat /\ \A k \in 1..Len(s) : s[k] \in Tcb
  BY DEF IsList
<1>2. /\ q \in Seq(Tcb) /\ Len(q) = Len(s) + 1 /\ q[1] = c
      /\ \A k \in 2..Len(q) : q[k] = s[k - 1] /\ k - 1 \in 1..Len(s)
  BY <1>1
<1> HIDE DEF q
<1>3. \A j, k \in 1..Len(q) : q[j] = q[k] => j = k
  <2> SUFFICES ASSUME NEW j \in 1..Len(q), NEW k \in 1..Len(q), q[j] = q[k], j < k PROVE FALSE
    BY <1>1, <1>2
  <2>1. k \in 2..Len(q) /\ q[k] = s[k - 1] /\ k - 1 \in 1..Len(s)
    BY <1>1, <1>2
  <2>2. CASE j = 1
    BY <1>2, <2>1, <2>2 DEF On
  <2>3. CASE j # 1
    <3>1. j \in 2..Len(q) /\ q[j] = s[j - 1] /\ j - 1 \in 1..Len(s)
      BY <1>1, <1>2, <2>3
    <3>2. j - 1 = k - 1
      BY <2>1, <3>1 DEF IsList
    <3> QED BY <3>2
  <2> QED BY <2>2, <2>3
<1>4. ASSUME NEW k \in 1..Len(q)
      PROVE  link2[q[k]] = IF k = Len(q) THEN NULL ELSE q[k + 1]
  <2>1. CASE k = 1
    <3>1. CASE Len(s) = 0
      BY <1>2, <2>1, <3>1 DEF IsList
    <3>2. CASE Len(s) # 0
      <4>1. h = s[1] /\ 2 \in 2..Len(q) /\ k # Len(q)
        BY <1>1, <1>2, <2>1, <3>2 DEF IsList
      <4>2. q[k + 1] = s[1]
        BY <1>2, <2>1, <4>1
      <4> QED BY <1>2, <2>1, <4>1, <4>2
    <3> QED BY <3>1, <3>2
  <2>2. CASE k # 1
    <3>1. k \in 2..Len(q) /\ q[k] = s[k - 1] /\ k - 1 \in 1..Len(s)
      BY <1>1, <1>2, <2>2
    <3>2. link2[q[k]] = IF k - 1 = Len(s) THEN NULL ELSE s[(k - 1) + 1]
      <4>1. link[s[k - 1]] = IF k - 1 = Len(s) THEN NULL ELSE s[(k - 1) + 1]
        BY <3>1 DEF IsList
      <4>2. link2[q[k]] = link[s[k - 1]]
        BY <3>1 DEF On
      <4> QED BY <4>1, <4>2
    <3>3. CASE k = Len(q)
      BY <1>1, <1>2, <3>2, <3>3
    <3>4. CASE k # Len(q)
      <4>1. k + 1 \in 2..Len(q) /\ k - 1 # Len(s) /\ (k - 1) + 1 = k /\ (k + 1) - 1 = k
        BY <1>1, <1>2, <3>1, <3>4
      <4>2. q[k + 1] = s[k]
        BY <1>2, <4>1
      <4> QED BY <3>2, <3>4, <4>1, <4>2
    <3> QED BY <3>3, <3>4
  <2> QED BY <2>1, <2>2
<1>5. IsList(link2, q, c)
  BY <1>1, <1>2, <1>3, <1>4 DEF IsList
<1>6. On(q) = On(s) \cup {c}
  <2>1. On(q) \subseteq On(s) \cup {c}
    BY <1>1, <1>2 DEF On
  <2>2. ASSUME NEW k \in 1..Len(s) PROVE s[k] \in On(q)
    <3>1. k + 1 \in 2..Len(q) /\ k + 1 \in 1..Len(q) /\ (k + 1) - 1 = k
      BY <1>1, <1>2
    <3> QED BY <1>2, <3>1 DEF On
  <2>3. c \in On(q)
    <3>1. 1 \in 1..Len(q)
      BY <1>1, <1>2
    <3> QED BY <1>2, <3>1 DEF On
  <2> QED BY <2>1, <2>2, <2>3 DEF On
<1> QED BY <1>5, <1>6 DEF q

\* A block behind the last.
LEMMA ListAppend ==
    ASSUME NEW link, NEW s, NEW h, IsList(link, s, h), Len(s) # 0,
           NEW c \in Tcb, c \notin On(s),
           NEW link2, link2[c] = NULL, link2[s[Len(s)]] = c,
           \A u \in On(s) \ {s[Len(s)]} : link2[u] = link[u]
    PROVE  IsList(link2, Append(s, c), h) /\ On(Append(s, c)) = On(s) \cup {c}
<1> DEFINE q == Append(s, c)
           n == Len(s)
<1>1. s \in Seq(Tcb) /\ n \in Nat \ {0} /\ \A k \in 1..n : s[k] \in Tcb
  BY DEF IsList
<1>2. /\ q \in Seq(Tcb) /\ Len(q) = n + 1 /\ q[n + 1] = c
      /\ \A k \in 1..n : q[k] = s[k]
  BY <1>1
<1>3. s[n] \in On(s) /\ n \in 1..n
  BY <1>1 DEF On
<1>4. /\ \A j, k \in 1..n : s[j] = s[k] => j = k
      /\ h = s[1] /\ link2[s[n]] = c
      /\ \A k \in 1..n : link[s[k]] = IF k = n THEN NULL ELSE s[k + 1]
  BY DEF IsList
<1>5. On(s) = {s[k] : k \in 1..n} /\ On(q) = {q[k] : k \in 1..Len(q)}
  BY DEF On
<1> HIDE DEF q, n
<1>6. \A j, k \in 1..Len(q) : q[j] = q[k] => j = k
  <2> SUFFICES ASSUME NEW j \in 1..Len(q), NEW k \in 1..Len(q), q[j] = q[k], j < k PROVE FALSE
    BY <1>1, <1>2
  <2>1. j \in 1..n /\ q[j] = s[j] /\ s[j] \in On(s)
    BY <1>1, <1>2, <1>5
  <2>2. CASE k = n + 1
    BY <1>2, <2>1, <2>2
  <2>3. CASE k # n + 1
    <3>1. k \in 1..n /\ q[k] = s[k]
      BY <1>1, <1>2, <2>3
    <3>2. j = k
      BY <1>4, <2>1, <3>1
    <3> QED BY <1>1, <3>1, <3>2
  <2> QED BY <2>2, <2>3
<1>7. ASSUME NEW k \in 1..Len(q)
      PROVE  link2[q[k]] = IF k = Len(q) THEN NULL ELSE q[k + 1]
  <2>1. CASE k = n + 1
    BY <1>1, <1>2, <2>1
  <2>2. CASE k = n
    BY <1>1, <1>2, <1>3, <1>4, <2>2
  <2>3. CASE k < n
    <3>1. k \in 1..n /\ k + 1 \in 1..n /\ k # Len(q) /\ k # n
      BY <1>1, <1>2, <2>3
    <3>2. s[k] # s[n] /\ s[k] \in On(s)
      BY <1>3, <1>4, <1>5, <3>1
    <3>3. link2[s[k]] = s[k + 1]
      <4>1. link2[s[k]] = link[s[k]]
        BY <3>2 DEF n
      <4> QED BY <1>4, <3>1, <4>1
    <3> QED BY <1>2, <3>1, <3>3
  <2> QED BY <1>1, <1>2, <2>1, <2>2, <2>3
<1>8. IsList(link2, q, h)
  <2>1. Len(q) # 0 /\ q[1] = s[1] /\ 1 \in 1..n
    BY <1>1, <1>2
  <2> QED BY <1>2, <1>4, <1>6, <1>7, <2>1 DEF IsList
<1>9. On(q) = On(s) \cup {c}
  <2>1. \A k \in 1..Len(q) : k \in 1..n \/ k = n + 1
    BY <1>1, <1>2
  <2>2. n + 1 \in 1..Len(q) /\ \A k \in 1..n : k \in 1..Len(q)
    BY <1>1, <1>2
  <2> QED BY <1>2, <1>5, <2>1, <2>2
<1> QED BY <1>8, <1>9 DEF q

\* A list of one block.
LEMMA ListSingle ==
    ASSUME NEW c \in Tcb, NEW link2, link2[c] = NULL
    PROVE  IsList(link2, <<c>>, c) /\ On(<<c>>) = {c}
BY DEF IsList, On

\* The list without its first block.
LEMMA ListTail ==
    ASSUME NEW link, NEW s, NEW h, IsList(link, s, h), h # NULL
    PROVE  /\ Len(s) # 0 /\ s[1] = h /\ h \in Tcb
           /\ IsList(link, Tail(s), link[h])
           /\ On(Tail(s)) = On(s) \ {h} /\ h \in On(s)
           /\ s = <<h>> \o Tail(s)
<1> DEFINE q == Tail(s)
           n == Len(s)
<1>1. s \in Seq(Tcb) /\ n \in Nat \ {0} /\ s[1] = h /\ \A k \in 1..n : s[k] \in Tcb
  BY DEF IsList
<1>2. q \in Seq(Tcb) /\ Len(q) = n - 1 /\ \A k \in 1..(n - 1) : q[k] = s[k + 1]
  BY <1>1
<1>3. /\ \A j, k \in 1..n : s[j] = s[k] => j = k
      /\ \A k \in 1..n : link[s[k]] = IF k = n THEN NULL ELSE s[k + 1]
  BY DEF IsList
<1>4. On(s) = {s[k] : k \in 1..n} /\ On(q) = {q[k] : k \in 1..Len(q)}
  BY DEF On
<1>5. s = <<h>> \o q
  BY <1>1
<1> HIDE DEF q, n
<1>6. \A k \in 1..(n - 1) : k + 1 \in 1..n /\ k + 1 # 1
  BY <1>1
<1>7. \A j, k \in 1..Len(q) : q[j] = q[k] => j = k
  BY <1>1, <1>2, <1>3, <1>6
<1>8. link[h] = IF Len(q) = 0 THEN NULL ELSE q[1]
  <2>1. link[s[1]] = IF 1 = n THEN NULL ELSE s[1 + 1]
    BY <1>1, <1>3
  <2>2. n # 1 => q[1] = s[1 + 1]
    BY <1>1, <1>2
  <2> QED BY <1>1, <1>2, <2>1, <2>2
<1>9. ASSUME NEW k \in 1..Len(q)
      PROVE  link[q[k]] = IF k = Len(q) THEN NULL ELSE q[k + 1]
  <2>1. k \in 1..(n - 1) /\ q[k] = s[k + 1] /\ k + 1 \in 1..n
    BY <1>2, <1>6
  <2>2. link[q[k]] = IF k + 1 = n THEN NULL ELSE s[(k + 1) + 1]
    BY <1>3, <2>1
  <2>3. k # n - 1 => k + 1 \in 1..(n - 1)
    BY <1>1, <2>1
  <2> QED BY <1>1, <1>2, <2>1, <2>2, <2>3
<1>10. IsList(link, q, link[h])
  BY <1>2, <1>7, <1>8, <1>9 DEF IsList
<1>11. On(q) = On(s) \ {h}
  <2>1. On(q) \subseteq On(s) \ {h}
    <3> SUFFICES ASSUME NEW k \in 1..Len(q) PROVE q[k] \in On(s) /\ q[k] # h
      BY <1>4
    <3>1. q[k] = s[k + 1] /\ k + 1 \in 1..n /\ k + 1 # 1 /\ 1 \in 1..n
      BY <1>1, <1>2, <1>6
    <3> QED BY <1>1, <1>3, <1>4, <3>1
  <2>2. ASSUME NEW k \in 1..n, s[k] # h PROVE s[k] \in On(q)
    <3>1. k - 1 \in 1..(n - 1) /\ (k - 1) + 1 = k
      BY <1>1, <2>2
    <3>2. q[k - 1] = s[k] /\ k - 1 \in 1..Len(q)
      BY <1>2, <3>1
    <3> QED BY <1>4, <3>2
  <2> QED BY <1>4, <2>1, <2>2
<1>12. h \in On(s)
  BY <1>1, <1>4
<1> QED BY <1>1, <1>5, <1>10, <1>11, <1>12 DEF q, n

\* The block that links to nothing is the last.
LEMMA ListLast ==
    ASSUME NEW link, NEW s, NEW h, IsList(link, s, h), NEW c \in On(s), link[c] = NULL
    PROVE  Len(s) # 0 /\ c = s[Len(s)]
<1>1. PICK k \in 1..Len(s) : c = s[k]
  BY DEF On
<1>2. s \in Seq(Tcb) /\ Len(s) \in Nat /\ \A j \in 1..Len(s) : s[j] \in Tcb
  BY DEF IsList
<1>3. link[s[k]] = IF k = Len(s) THEN NULL ELSE s[k + 1]
  BY DEF IsList
<1>4. k # Len(s) => s[k + 1] \in Tcb
  BY <1>2
<1> QED BY <1>1, <1>2, <1>3, <1>4, NullIsNoBlock

-----------------------------------------------------------------------------
(* The invariant.                                                          *)

Proper(h) == Listed(sleep_queue, h)
Asleep    == {t \in Live : run_list[t] = NULL}

\* A slot holds its own task or nothing, and only tasks of the set and the idle task
\* have slots; the running task is ready, main has no tasks.
SlotsInv ==
    /\ \A p \in Prio : \/ run_list[p] = NULL
                       \/ run_list[p] = p /\ p \in Live \cup {IDLE_PRIO}
    /\ cur_tcb = NULL => num_tasks = 0
    /\ cur_tcb # NULL => run_list[cur_tcb] = cur_tcb /\ run_list[IDLE_PRIO] = IDLE_PRIO
    /\ \A t \in Live : cur_prio[t] = t

HoldersInv ==
    \A m \in MutexId : /\ bLock[m] = (pHolding_Tcb[m] # NULL)
                       /\ pSleep_queue[m] # NULL => pHolding_Tcb[m] # NULL

\* The lists are lists; together they hold the tasks that are not ready, each once, and
\* a ready task links to nothing: mutex.c:71-78 links the last waiter and relies on it.
ListsInv ==
    /\ \A d \in Device : Proper(dev_queue[d])
    /\ \A m \in MutexId : Proper(pSleep_queue[m])
    /\ \A t \in Live \ Asleep : sleep_queue[t] = NULL
    /\ \A d \in Device : Sleepers(d) \subseteq Asleep
    /\ \A m \in MutexId : Waiters(m) \subseteq Asleep
    /\ \A t \in Asleep : (\E d \in Device : t \in Sleepers(d))
                      \/ (\E m \in MutexId : t \in Waiters(m))
    /\ \A d, e \in Device : d # e => Sleepers(d) \cap Sleepers(e) = {}
    /\ \A m, n \in MutexId : m # n => Waiters(m) \cap Waiters(n) = {}
    /\ \A d \in Device, m \in MutexId : Sleepers(d) \cap Waiters(m) = {}

FcfsInv == TypeOK /\ ~fault /\ SlotsInv /\ HoldersInv /\ ListsInv

-----------------------------------------------------------------------------
(* What the invariant says about the state a step starts from.             *)

LEMMA EmptyList ==
    ASSUME NEW link
    PROVE  /\ IsList(link, <<>>, NULL) /\ Reach(link, NULL) = {}
           /\ InOrder(link, NULL) = <<>>
<1>1. IsList(link, <<>>, NULL) /\ On(<<>>) = {}
  BY DEF IsList, On
<1> QED BY <1>1, ListReach, ListInOrder

\* A list no block of which is linked anew stays as it is.
LEMMA KeptList ==
    ASSUME NEW link, NEW link2, NEW h, Listed(link, h),
           \A u \in Reach(link, h) : link2[u] = link[u]
    PROVE  /\ Listed(link2, h)
           /\ Reach(link2, h) = Reach(link, h)
           /\ InOrder(link2, h) = InOrder(link, h)
<1>1. PICK s \in Seq(Tcb) : IsList(link, s, h)
  BY DEF Listed
<1>2. Reach(link, h) = On(s) /\ InOrder(link, h) = s
  BY <1>1, ListReach, ListInOrder
<1>3. IsList(link2, s, h)
  BY <1>1, <1>2, ListFrame
<1> QED BY <1>2, <1>3, ListReach, ListInOrder DEF Listed

LEMMA LiveRange ==
    ASSUME TypeOK
    PROVE  /\ Live \in SUBSET Tcb
           /\ TOP_PRIO \notin Live /\ IDLE_PRIO \notin Live
           /\ TOP_PRIO # IDLE_PRIO /\ TOP_PRIO \in Tcb /\ IDLE_PRIO \in Tcb
           /\ NULL \notin Tcb /\ Tcb = Prio
BY IdlePrioAssumption, NullAssumption
   DEF TypeOK, SchedTypeOK, Live, Tcb, Prio, TOP_PRIO

\* A task that makes a system call is ready, on no list, and links to nothing.
LEMMA CallerIsReady ==
    ASSUME FcfsInv, InTask
    PROVE  /\ cur_tcb \in Live /\ cur_tcb \in Tcb /\ cur_tcb # TOP_PRIO
           /\ cur_tcb # NULL /\ cur_tcb # IDLE_PRIO
           /\ run_list[cur_tcb] = cur_tcb /\ cur_prio[cur_tcb] = cur_tcb
           /\ sleep_queue[cur_tcb] = NULL
           /\ cur_tcb \notin Asleep
           /\ \A d \in Device : cur_tcb \notin Sleepers(d)
           /\ \A m \in MutexId : cur_tcb \notin Waiters(m)
<1>1. cur_tcb # NULL /\ cur_tcb # IDLE_PRIO /\ cur_tcb \in Prio
  BY DEF FcfsInv, TypeOK, SchedTypeOK, InTask, InUser, Tcb
<1>2. run_list[cur_tcb] = cur_tcb /\ cur_tcb \in Live
  BY <1>1 DEF FcfsInv, SlotsInv
<1>3. cur_tcb \notin Asleep
  BY <1>1, <1>2 DEF Asleep
<1> QED BY <1>1, <1>2, <1>3, LiveRange DEF FcfsInv, SlotsInv, ListsInv

\* A set of priorities that is not empty has a least element.
LEMMA LeastPrio ==
    ASSUME NEW S \in SUBSET Prio, S # {}
    PROVE  \E p \in S : \A q \in S : p <= q
<1>1. S \subseteq Nat
  BY IdlePrioAssumption DEF Prio
<1>2. PICK p \in S : \A q \in S : ~(<<q, p>> \in OpToRel(<, Nat))
  BY <1>1, WFMin, NatLessThanWellFounded DEF Prio
<1>3. ASSUME NEW q \in S PROVE p <= q
  <2>1. p \in Nat /\ q \in Nat /\ ~(q < p)
    BY <1>1, <1>2 DEF OpToRel
  <2> QED BY <2>1
<1> QED BY <1>3

\* With something ready, highest_prio is ready.
LEMMA HighestIsReady ==
    ASSUME NEW rl, Ready(rl) # {}
    PROVE  highest_prio(rl) \in Prio /\ rl[highest_prio(rl)] # NULL
<1>1. Ready(rl) \in SUBSET Prio
  BY DEF Ready
<1>2. \E p \in Ready(rl) : \A q \in Ready(rl) : p <= q
  BY <1>1, LeastPrio
<1>3. highest_prio(rl) \in Ready(rl)
  BY <1>2 DEF highest_prio
<1> QED BY <1>3 DEF Ready

\* The running task goes to sleep: it leaves its slot and no other does.
LEMMA DispatchSleep ==
    ASSUME FcfsInv, InTask, dispatch_sleep, UNCHANGED <<cur_prio, num_tasks>>
    PROVE  /\ run_list' = [run_list EXCEPT ![cur_tcb] = NULL]
           /\ run_list' \in [Prio -> Tcb \cup {NULL}]
           /\ cur_tcb' \in Tcb /\ cur_tcb' # NULL /\ ~fault'
           /\ run_list'[cur_tcb'] = cur_tcb'
           /\ SlotsInv' /\ Live' = Live
           /\ Asleep' = Asleep \cup {cur_tcb}
<1>1. /\ run_list' = [run_list EXCEPT ![cur_tcb] = NULL]
      /\ cur_tcb' = highest_prio(run_list')
      /\ fault' = (run_list[cur_tcb] # cur_tcb \/ cur_tcb' = TOP_PRIO)
  BY CallerIsReady DEF dispatch_sleep, NoContext
<1>2. run_list \in [Prio -> Tcb \cup {NULL}] /\ Tcb = Prio /\ NULL \notin Tcb
  BY LiveRange DEF FcfsInv, TypeOK, SchedTypeOK
<1>3. run_list' \in [Prio -> Tcb \cup {NULL}]
  BY <1>1, <1>2
<1>4. Live' = Live
  BY DEF Live
<1>5. \A p \in Prio : run_list'[p] = IF p = cur_tcb THEN NULL ELSE run_list[p]
  BY <1>1, <1>2, CallerIsReady
<1>6. run_list'[IDLE_PRIO] = IDLE_PRIO /\ IDLE_PRIO \in Prio
  BY <1>2, <1>5, CallerIsReady, LiveRange DEF FcfsInv, SlotsInv
<1>7. \A p \in Prio : run_list'[p] = NULL \/ (run_list'[p] = p
      /\ p \in Live \cup {IDLE_PRIO})
  BY <1>5 DEF FcfsInv, SlotsInv
<1>8. Ready(run_list') # {}
  BY <1>2, <1>6 DEF Ready
<1>9. cur_tcb' \in Prio /\ run_list'[cur_tcb'] = cur_tcb'
      /\ cur_tcb' \in Live \cup {IDLE_PRIO}
  BY <1>1, <1>7, <1>8, HighestIsReady
<1>10. ~fault'
  BY <1>1, <1>9, CallerIsReady, LiveRange DEF FcfsInv
<1>11. SlotsInv'
  BY <1>2, <1>4, <1>6, <1>7, <1>9 DEF FcfsInv, SlotsInv
<1>12. Asleep' = Asleep \cup {cur_tcb}
  BY <1>2, <1>4, <1>5, CallerIsReady, LiveRange DEF Asleep, FcfsInv
<1> QED BY <1>1, <1>2, <1>3, <1>4, <1>9, <1>10, <1>11, <1>12

-----------------------------------------------------------------------------
(* The invariant holds at the start, and one lemma per action.             *)

\* With every list empty and every task ready nothing is left to show of the lists.
LEMMA NoLists ==
    ASSUME \A d \in Device : dev_queue[d] = NULL,
           \A m \in MutexId : pSleep_queue[m] = NULL
    PROVE  /\ \A d \in Device : Proper(dev_queue[d]) /\ Sleepers(d) = {}
           /\ \A m \in MutexId : /\ Proper(pSleep_queue[m]) /\ Waiters(m) = {}
                                 /\ InOrder(sleep_queue, pSleep_queue[m]) = <<>>
<1>1. <<>> \in Seq(Tcb)
  OBVIOUS
<1> QED BY <1>1, EmptyList DEF Proper, Listed, Sleepers, Waiters, OnList

LEMMA InitFcfs == Init => FcfsInv
<1> SUFFICES ASSUME Init PROVE FcfsInv
  OBVIOUS
<1> USE DEF Init, SchedInit, dev_init, mutex_init
<1>1. IDLE_PRIO \in Nat \ {0} /\ Tcb = Prio /\ 0 \in Prio /\ NULL \notin Tcb
  BY IdlePrioAssumption, NullAssumption DEF Tcb, Prio
<1>2. SchedTypeOK
  <2>1. num_tasks \in 0..(IDLE_PRIO - 1)
    BY <1>1
  <2>2. holds_lock \in [Tcb -> Int]
    OBVIOUS
  <2>3. fault \in BOOLEAN
    OBVIOUS
  <2> QED BY <1>1, <2>1, <2>2, <2>3 DEF SchedTypeOK
<1>3. DeviceTypeOK
  <2>1. timer \in Millis
    BY WordAssumption DEF Millis
  <2> QED BY <2>1, FreqAssumption DEF DeviceTypeOK
<1>4. MutexTypeOK
  <2>1. mutexExist \in 0..OS_NUM_MUTEX
    BY NumMutexAssumption
  <2>2. bLock \in [MutexId -> BOOLEAN]
    OBVIOUS
  <2> QED BY <2>1, <2>2 DEF MutexTypeOK
<1>5. Live = {}
  BY DEF Live
<1>6. SlotsInv
  BY <1>5 DEF SlotsInv
<1>7. HoldersInv
  BY DEF HoldersInv
<1>8. ListsInv
  <2>1. /\ \A d \in Device : Proper(dev_queue[d]) /\ Sleepers(d) = {}
        /\ \A m \in MutexId : Proper(pSleep_queue[m]) /\ Waiters(m) = {}
    BY NoLists
  <2> QED BY <1>5, <2>1 DEF ListsInv, Asleep
<1> QED BY <1>2, <1>3, <1>4, <1>6, <1>7, <1>8 DEF FcfsInv, TypeOK

\* A new set starts with every list empty.
LEMMA TaskCreateLists ==
    ASSUME FcfsInv, NEW n \in 0..(IDLE_PRIO - 1), task_create(n)
    PROVE  /\ dev_queue' = dev_queue /\ pSleep_queue' = pSleep_queue
           /\ \A d \in Device : dev_queue[d] = NULL
           /\ \A m \in MutexId : ~bLock[m] /\ pSleep_queue[m] = NULL
           /\ \A d \in Device : Proper(dev_queue[d])' /\ Sleepers(d)' = {}
           /\ \A m \in MutexId : /\ Proper(pSleep_queue[m])' /\ Waiters(m)' = {}
                                 /\ InOrder(sleep_queue', pSleep_queue'[m]) = <<>>
<1>1. dev_queue' = dev_queue /\ pSleep_queue' = pSleep_queue /\ bLock' = bLock
  BY DEF task_create, dev_vars, mutex_vars
<1>2. \A d \in Device : dev_queue[d] = NULL
  BY DEF task_create, Quiescent
<1>3. \A m \in MutexId : ~bLock[m]
  BY DEF task_create, Quiescent
<1>4. \A m \in MutexId : pSleep_queue[m] = NULL
  BY <1>3 DEF FcfsInv, HoldersInv
<1>5. /\ \A d \in Device : dev_queue'[d] = NULL
      /\ \A m \in MutexId : pSleep_queue'[m] = NULL
  BY <1>1, <1>2, <1>4
<1>6. <<>> \in Seq(Tcb)
  OBVIOUS
<1> QED BY <1>1, <1>2, <1>3, <1>4, <1>5, <1>6, EmptyList DEF Proper, Listed, Sleepers, Waiters, OnList

LEMMA TaskCreateFcfs ==
    ASSUME FcfsInv, NEW n \in 0..(IDLE_PRIO - 1), task_create(n)
    PROVE  FcfsInv'
<1> DEFINE new == (1..n) \cup {IDLE_PRIO}
<1>0. IDLE_PRIO \in Nat \ {0} /\ Tcb = Prio /\ Prio = 0..IDLE_PRIO /\ NULL \notin Tcb
  BY IdlePrioAssumption, NullAssumption DEF Tcb, Prio
<1>1. new \in SUBSET Prio /\ IDLE_PRIO \in new /\ TOP_PRIO \notin new
  BY <1>0 DEF TOP_PRIO
<1>2. /\ run_list' = [p \in Prio |-> IF p \in new THEN p ELSE NULL]
      /\ cur_prio' = [t \in Tcb |-> IF t \in new THEN t ELSE cur_prio[t]]
      /\ holds_lock' = [t \in Tcb |-> IF t \in new THEN 0 ELSE holds_lock[t]]
      /\ sleep_queue' = [t \in Tcb |-> IF t \in new THEN NULL ELSE sleep_queue[t]]
      /\ num_tasks' = n /\ fault' = fault
      /\ cur_tcb' = highest_prio(run_list')
      /\ UNCHANGED <<dev_vars, mutex_vars>>
  BY DEF task_create, allocate_tasks, NewSet
<1>3. Live' \subseteq new /\ Live' \in SUBSET Tcb
  BY <1>0, <1>1, <1>2 DEF Live
<1>4. new = Live' \cup {IDLE_PRIO}
  BY <1>2 DEF Live
<1> HIDE DEF new
<1>5. Ready(run_list') # {}
  BY <1>0, <1>1, <1>2 DEF Ready
<1>6. cur_tcb' \in Prio /\ run_list'[cur_tcb'] = cur_tcb'
  <2>1. cur_tcb' \in Prio /\ run_list'[cur_tcb'] # NULL
    BY <1>2, <1>5, HighestIsReady
  <2> QED BY <1>2, <2>1
<1>7. SchedTypeOK'
  <2>1. num_tasks' \in 0..(IDLE_PRIO - 1)
    BY <1>2
  <2>2. holds_lock' \in [Tcb -> Int]
    BY <1>2 DEF FcfsInv, TypeOK, SchedTypeOK
  <2>3. fault' \in BOOLEAN
    BY <1>2 DEF FcfsInv, TypeOK, SchedTypeOK
  <2>4. run_list' \in [Prio -> Tcb \cup {NULL}] /\ cur_tcb' \in Tcb \cup {NULL}
    BY <1>0, <1>1, <1>2, <1>6
  <2>5. cur_prio' \in [Tcb -> Prio] /\ sleep_queue' \in [Tcb -> Tcb \cup {NULL}]
    BY <1>0, <1>1, <1>2 DEF FcfsInv, TypeOK, SchedTypeOK
  <2> QED BY <2>1, <2>2, <2>3, <2>4, <2>5 DEF SchedTypeOK
<1>8. DeviceTypeOK' /\ MutexTypeOK' /\ HoldersInv'
  BY <1>2 DEF FcfsInv, TypeOK, DeviceTypeOK, MutexTypeOK, HoldersInv, dev_vars, mutex_vars
<1>9. SlotsInv'
  <2>1. \A p \in Prio : run_list'[p] = NULL \/ (run_list'[p] = p /\ p \in Live' \cup {IDLE_PRIO})
    BY <1>2, <1>4
  <2>2. cur_tcb' # NULL /\ run_list'[IDLE_PRIO] = IDLE_PRIO
    BY <1>0, <1>1, <1>2, <1>6
  <2>3. \A t \in Live' : cur_prio'[t] = t
    BY <1>2, <1>3
  <2> QED BY <1>6, <2>1, <2>2, <2>3 DEF SlotsInv
<1>10. Asleep' = {}
  <2>1. \A t \in Live' : run_list'[t] = t /\ t # NULL
    BY <1>0, <1>2, <1>3
  <2> QED BY <2>1 DEF Asleep
<1>11. \A t \in Live' : sleep_queue'[t] = NULL
  BY <1>2, <1>3
<1>12. ListsInv'
  BY <1>10, <1>11, TaskCreateLists DEF ListsInv
<1> QED BY <1>2, <1>7, <1>8, <1>9, <1>12 DEF FcfsInv, TypeOK

LEMMA CreateMutexFcfs ==
    ASSUME FcfsInv, CreateMutex
    PROVE  FcfsInv'
<1> USE DEF CreateMutex, mutex_create, dev_vars, sched_vars, lock_vars, FcfsInv
<1>1. mutexExist' \in 0..OS_NUM_MUTEX
  BY NumMutexAssumption DEF TypeOK, MutexTypeOK
<1>2. MutexTypeOK'
  BY <1>1 DEF TypeOK, MutexTypeOK
<1>3. SchedTypeOK' /\ DeviceTypeOK' /\ ~fault'
  BY DEF TypeOK, SchedTypeOK, DeviceTypeOK
<1>4. SlotsInv' /\ HoldersInv'
  BY DEF SlotsInv, HoldersInv, Live
<1>5. ListsInv'
  BY DEF ListsInv, Live, Asleep, Proper, Listed, Sleepers, Waiters, OnList
<1> QED BY <1>2, <1>3, <1>4, <1>5 DEF TypeOK

\* The caller becomes the head of the device's list; the others stay as they are.
LEMMA EventWaitLists ==
    ASSUME FcfsInv, NEW d \in Device, event_wait(d)
    PROVE  /\ Proper(dev_queue[d])' /\ Sleepers(d)' = Sleepers(d) \cup {cur_tcb}
           /\ \A e \in Device \ {d} : Proper(dev_queue[e])' /\ Sleepers(e)' = Sleepers(e)
           /\ \A m \in MutexId :
                 /\ Proper(pSleep_queue[m])' /\ Waiters(m)' = Waiters(m)
                 /\ InOrder(sleep_queue', pSleep_queue'[m]) = InOrder(sleep_queue, pSleep_queue[m])
           /\ sleep_queue' \in [Tcb -> Tcb \cup {NULL}]
           /\ dev_queue' \in [Device -> Tcb \cup {NULL}]
           /\ \A t \in Tcb \ {cur_tcb} : sleep_queue'[t] = sleep_queue[t]
<1>1. /\ sleep_queue \in [Tcb -> Tcb \cup {NULL}]
      /\ dev_queue \in [Device -> Tcb \cup {NULL}]
  BY DEF FcfsInv, TypeOK, SchedTypeOK, DeviceTypeOK
<1>2. /\ cur_tcb \in Tcb
      /\ \A e \in Device : cur_tcb \notin Sleepers(e)
      /\ \A m \in MutexId : cur_tcb \notin Waiters(m)
  BY CallerIsReady DEF event_wait
<1>3. /\ sleep_queue' = [sleep_queue EXCEPT ![cur_tcb] = dev_queue[d]]
      /\ dev_queue' = [dev_queue EXCEPT ![d] = cur_tcb]
      /\ pSleep_queue' = pSleep_queue
  BY DEF event_wait, dev_wait, mutex_vars
<1>4. /\ sleep_queue' \in [Tcb -> Tcb \cup {NULL}]
      /\ dev_queue' \in [Device -> Tcb \cup {NULL}]
      /\ sleep_queue'[cur_tcb] = dev_queue[d] /\ dev_queue'[d] = cur_tcb
      /\ \A e \in Device \ {d} : dev_queue'[e] = dev_queue[e]
      /\ \A t \in Tcb \ {cur_tcb} : sleep_queue'[t] = sleep_queue[t]
  BY <1>1, <1>2, <1>3
<1>5. \A h : Reach(sleep_queue, h) \subseteq Tcb
  BY DEF Reach
<1>6. Proper(dev_queue[d])' /\ Sleepers(d)' = Sleepers(d) \cup {cur_tcb}
  <2>1. PICK s \in Seq(Tcb) : IsList(sleep_queue, s, dev_queue[d])
    BY DEF FcfsInv, ListsInv, Proper, Listed
  <2>2. On(s) = Sleepers(d)
    BY <2>1, ListReach DEF Sleepers, OnList
  <2>3. \A u \in On(s) : sleep_queue'[u] = sleep_queue[u]
    BY <1>2, <1>4, <1>5, <2>2 DEF Sleepers, OnList
  <2>4. IsList(sleep_queue', <<cur_tcb>> \o s, cur_tcb) /\ On(<<cur_tcb>> \o s) = On(s) \cup {cur_tcb}
    BY <1>2, <1>4, <2>1, <2>2, <2>3, ListPush
  <2>5. <<cur_tcb>> \o s \in Seq(Tcb)
    BY <2>4 DEF IsList
  <2>6. Reach(sleep_queue', cur_tcb) = On(<<cur_tcb>> \o s)
    BY <2>4, ListReach
  <2> QED BY <1>4, <2>2, <2>4, <2>5, <2>6 DEF Proper, Listed, Sleepers, OnList
<1>7. ASSUME NEW e \in Device \ {d}
      PROVE  Proper(dev_queue[e])' /\ Sleepers(e)' = Sleepers(e)
  <2>1. Listed(sleep_queue, dev_queue[e])
    BY DEF FcfsInv, ListsInv, Proper, Listed
  <2>2. \A u \in Reach(sleep_queue, dev_queue[e]) : sleep_queue'[u] = sleep_queue[u]
    BY <1>2, <1>4, <1>5 DEF Sleepers, OnList
  <2>3. dev_queue'[e] = dev_queue[e]
    BY <1>4
  <2>4. /\ Listed(sleep_queue', dev_queue[e])
        /\ Reach(sleep_queue', dev_queue[e]) = Reach(sleep_queue, dev_queue[e])
    BY <2>1, <2>2, KeptList
  <2> QED BY <2>3, <2>4 DEF Proper, Listed, Sleepers, OnList
<1>8. ASSUME NEW m \in MutexId
      PROVE  /\ Proper(pSleep_queue[m])' /\ Waiters(m)' = Waiters(m)
             /\ InOrder(sleep_queue', pSleep_queue'[m]) = InOrder(sleep_queue, pSleep_queue[m])
  <2>1. Listed(sleep_queue, pSleep_queue[m])
    BY DEF FcfsInv, ListsInv, Proper, Listed
  <2>2. \A u \in Reach(sleep_queue, pSleep_queue[m]) : sleep_queue'[u] = sleep_queue[u]
    BY <1>2, <1>4, <1>5 DEF Waiters, OnList
  <2>3. /\ Listed(sleep_queue', pSleep_queue[m])
        /\ Reach(sleep_queue', pSleep_queue[m]) = Reach(sleep_queue, pSleep_queue[m])
        /\ InOrder(sleep_queue', pSleep_queue[m]) = InOrder(sleep_queue, pSleep_queue[m])
    BY <2>1, <2>2, KeptList
  <2> QED BY <1>3, <2>3 DEF Proper, Listed, Waiters, OnList
<1> QED BY <1>4, <1>6, <1>7, <1>8

LEMMA EventWaitFcfs ==
    ASSUME FcfsInv, NEW d \in Device, event_wait(d)
    PROVE  FcfsInv'
<1>1. /\ InTask /\ dispatch_sleep
      /\ UNCHANGED <<cur_prio, holds_lock, num_tasks, timer, next_match, mutex_vars>>
  BY DEF event_wait, dev_wait
<1>2. /\ run_list' \in [Prio -> Tcb \cup {NULL}]
      /\ cur_tcb' \in Tcb /\ ~fault' /\ fault' \in BOOLEAN
      /\ SlotsInv' /\ Live' = Live
      /\ Asleep' = Asleep \cup {cur_tcb}
  <2>1. fault' \in BOOLEAN
    BY <1>1 DEF dispatch_sleep, NoContext
  <2> QED BY <1>1, <2>1, DispatchSleep
<1>3. SchedTypeOK'
  <2>1. /\ cur_prio' \in [Tcb -> Prio] /\ holds_lock' \in [Tcb -> Int]
        /\ num_tasks' \in 0..(IDLE_PRIO - 1)
    BY <1>1 DEF FcfsInv, TypeOK, SchedTypeOK
  <2>2. sleep_queue' \in [Tcb -> Tcb \cup {NULL}]
    BY EventWaitLists
  <2> QED BY <1>2, <2>1, <2>2 DEF SchedTypeOK
<1>4. DeviceTypeOK'
  BY <1>1, EventWaitLists DEF FcfsInv, TypeOK, DeviceTypeOK
<1>5. MutexTypeOK' /\ HoldersInv'
  BY <1>1 DEF FcfsInv, TypeOK, MutexTypeOK, HoldersInv, mutex_vars
<1>6. ListsInv'
  <2>1. /\ cur_tcb \in Tcb
        /\ \A e \in Device : cur_tcb \notin Sleepers(e)
        /\ \A m \in MutexId : cur_tcb \notin Waiters(m)
    BY <1>1, CallerIsReady
  <2>2. \A e \in Device : Proper(dev_queue[e])'
    BY EventWaitLists
  <2>3. \A m \in MutexId : Proper(pSleep_queue[m])' /\ Waiters(m)' = Waiters(m)
    BY EventWaitLists
  <2>4. \A e \in Device : Sleepers(e)' = Sleepers(e) \cup (IF e = d THEN {cur_tcb} ELSE {})
    BY EventWaitLists
  <2>5. \A t \in Live' \ Asleep' : sleep_queue'[t] = NULL
    BY <1>2, EventWaitLists, LiveRange DEF FcfsInv, ListsInv
  <2>6. \A e \in Device : Sleepers(e)' \subseteq Asleep'
    BY <1>2, <2>4 DEF FcfsInv, ListsInv
  <2>7. \A m \in MutexId : Waiters(m)' \subseteq Asleep'
    BY <1>2, <2>3 DEF FcfsInv, ListsInv
  <2>8. \A t \in Asleep' : (\E e \in Device : t \in Sleepers(e)')
                        \/ (\E m \in MutexId : t \in Waiters(m)')
    BY <1>2, <2>3, <2>4 DEF FcfsInv, ListsInv
  <2>9. \A e, f \in Device : e # f => Sleepers(e)' \cap Sleepers(f)' = {}
    BY <2>1, <2>4 DEF FcfsInv, ListsInv
  <2>10. \A m, n \in MutexId : m # n => Waiters(m)' \cap Waiters(n)' = {}
    BY <2>3 DEF FcfsInv, ListsInv
  <2>11. \A e \in Device, m \in MutexId : Sleepers(e)' \cap Waiters(m)' = {}
    BY <2>1, <2>3, <2>4 DEF FcfsInv, ListsInv
  <2> QED BY <2>2, <2>3, <2>5, <2>6, <2>7, <2>8, <2>9, <2>10, <2>11 DEF ListsInv
<1> QED BY <1>2, <1>3, <1>4, <1>5, <1>6 DEF FcfsInv, TypeOK

\* A step that leaves the lists and the slots alone.
LEMMA SameLists ==
    ASSUME FcfsInv,
           UNCHANGED <<run_list, cur_tcb, cur_prio, sleep_queue, num_tasks, dev_queue, pSleep_queue>>
    PROVE  SlotsInv' /\ ListsInv'
<1>1. SlotsInv'
  BY DEF FcfsInv, SlotsInv, Live
<1>2. ListsInv'
  BY DEF FcfsInv, ListsInv, Live, Asleep, Proper, Sleepers, Waiters, OnList
<1> QED BY <1>1, <1>2

LEMMA LockFreeFcfs ==
    ASSUME FcfsInv, NEW m \in MutexId, LockMutex(m), ~bLock[m]
    PROVE  FcfsInv'
<1>1. /\ InTask /\ lock_free(m)
      /\ UNCHANGED <<cur_prio, num_tasks, mutexExist, dev_vars>>
  BY DEF LockMutex, mutex_lock
<1>2. /\ cur_tcb \in Tcb /\ cur_tcb # NULL /\ m \in Int
  BY <1>1, CallerIsReady, NumMutexAssumption DEF MutexId
<1>3. SchedTypeOK'
  <2>1. holds_lock' \in [Tcb -> Int]
    BY <1>1, <1>2 DEF lock_free, FcfsInv, TypeOK, SchedTypeOK
  <2> QED BY <1>1, <2>1 DEF lock_free, FcfsInv, TypeOK, SchedTypeOK
<1>4. DeviceTypeOK' /\ ~fault'
  BY <1>1 DEF lock_free, FcfsInv, TypeOK, DeviceTypeOK, dev_vars
<1>5. /\ bLock' = [bLock EXCEPT ![m] = TRUE] /\ bLock \in [MutexId -> BOOLEAN]
      /\ pHolding_Tcb' = [pHolding_Tcb EXCEPT ![m] = cur_tcb]
      /\ pHolding_Tcb \in [MutexId -> Tcb \cup {NULL}]
      /\ pSleep_queue' = pSleep_queue
  BY <1>1 DEF lock_free, FcfsInv, TypeOK, MutexTypeOK
<1>6. MutexTypeOK'
  <2>1. bLock' \in [MutexId -> BOOLEAN]
    BY <1>5
  <2>2. pHolding_Tcb' \in [MutexId -> Tcb \cup {NULL}]
    BY <1>2, <1>5
  <2> QED BY <1>1, <1>5, <2>1, <2>2 DEF FcfsInv, TypeOK, MutexTypeOK
<1>7. HoldersInv'
  BY <1>2, <1>5 DEF FcfsInv, HoldersInv
<1>8. SlotsInv' /\ ListsInv'
  BY <1>1, SameLists DEF lock_free, dev_vars
<1> QED BY <1>3, <1>4, <1>6, <1>7, <1>8 DEF FcfsInv, TypeOK

\* The caller becomes the last of the mutex's list; the others stay as they are.
LEMMA LockWaitLists ==
    ASSUME FcfsInv, NEW m \in MutexId, LockMutex(m), bLock[m]
    PROVE  /\ Proper(pSleep_queue[m])' /\ Waiters(m)' = Waiters(m) \cup {cur_tcb}
           /\ InOrder(sleep_queue', pSleep_queue'[m])
                = Append(InOrder(sleep_queue, pSleep_queue[m]), cur_tcb)
           /\ \A n \in MutexId \ {m} :
                 /\ Proper(pSleep_queue[n])' /\ Waiters(n)' = Waiters(n)
                 /\ InOrder(sleep_queue', pSleep_queue'[n]) = InOrder(sleep_queue, pSleep_queue[n])
           /\ \A d \in Device : Proper(dev_queue[d])' /\ Sleepers(d)' = Sleepers(d)
           /\ sleep_queue' \in [Tcb -> Tcb \cup {NULL}]
           /\ pSleep_queue' \in [MutexId -> Tcb \cup {NULL}]
           /\ \A t \in Tcb \ Waiters(m) : sleep_queue'[t] = sleep_queue[t]
<1>1. /\ sleep_queue \in [Tcb -> Tcb \cup {NULL}]
      /\ pSleep_queue \in [MutexId -> Tcb \cup {NULL}]
  BY DEF FcfsInv, TypeOK, SchedTypeOK, MutexTypeOK
<1>2. /\ InTask /\ joins(m) /\ dev_queue' = dev_queue
  BY DEF LockMutex, mutex_lock, lock_wait, dev_vars
<1>3. /\ cur_tcb \in Tcb /\ sleep_queue[cur_tcb] = NULL
      /\ \A d \in Device : cur_tcb \notin Sleepers(d)
      /\ \A n \in MutexId : cur_tcb \notin Waiters(n)
  BY <1>2, CallerIsReady
<1>4. PICK s \in Seq(Tcb) : IsList(sleep_queue, s, pSleep_queue[m])
  BY DEF FcfsInv, ListsInv, Proper, Listed
<1>5. On(s) = Waiters(m) /\ InOrder(sleep_queue, pSleep_queue[m]) = s
      /\ Waiters(m) \subseteq Tcb
  BY <1>4, ListReach, ListInOrder DEF Waiters, OnList, Reach
<1>6. /\ IsList(sleep_queue', Append(s, cur_tcb), pSleep_queue'[m])
      /\ On(Append(s, cur_tcb)) = Waiters(m) \cup {cur_tcb}
      /\ sleep_queue' \in [Tcb -> Tcb \cup {NULL}]
      /\ pSleep_queue' \in [MutexId -> Tcb \cup {NULL}]
      /\ \A t \in Tcb \ Waiters(m) : sleep_queue'[t] = sleep_queue[t]
      /\ \A n \in MutexId \ {m} : pSleep_queue'[n] = pSleep_queue[n]
  <2>1. CASE pSleep_queue[m] = NULL
    <3>1. pSleep_queue' = [pSleep_queue EXCEPT ![m] = cur_tcb] /\ sleep_queue' = sleep_queue
      BY <1>2, <2>1 DEF joins
    <3>2. Len(s) = 0
      BY <1>4, <2>1, NullIsNoBlock DEF IsList
    <3>3. s = <<>>
      BY <3>2
    <3>4. Append(s, cur_tcb) = <<cur_tcb>> /\ Waiters(m) = {}
      <4>1. On(<<>>) = {}
        BY DEF On
      <4> QED BY <1>5, <3>3, <4>1
    <3>5. pSleep_queue'[m] = cur_tcb
      BY <1>1, <3>1
    <3>6. IsList(sleep_queue', <<cur_tcb>>, cur_tcb) /\ On(<<cur_tcb>>) = {cur_tcb}
      BY <1>3, <3>1, ListSingle
    <3> QED BY <1>1, <1>3, <3>1, <3>4, <3>5, <3>6
  <2>2. CASE pSleep_queue[m] # NULL
    <3>1. PICK tail \in Waiters(m) :
              sleep_queue[tail] = NULL /\ sleep_queue' = [sleep_queue EXCEPT ![tail] = cur_tcb]
      BY <1>2, <2>2 DEF joins
    <3>2. pSleep_queue' = pSleep_queue
      BY <1>2, <2>2 DEF joins
    <3>3. Len(s) # 0 /\ tail = s[Len(s)]
      BY <1>4, <1>5, <3>1, ListLast
    <3>4. /\ tail \in Tcb /\ tail # cur_tcb /\ cur_tcb \notin On(s)
          /\ sleep_queue'[tail] = cur_tcb
          /\ \A u \in Tcb \ {tail} : sleep_queue'[u] = sleep_queue[u]
      BY <1>1, <1>3, <1>5, <3>1
    <3>5. sleep_queue'[cur_tcb] = NULL
      BY <1>3, <3>4
    <3>6. \A u \in On(s) \ {s[Len(s)]} : sleep_queue'[u] = sleep_queue[u]
      BY <1>5, <3>3, <3>4
    <3>7. /\ IsList(sleep_queue', Append(s, cur_tcb), pSleep_queue[m])
          /\ On(Append(s, cur_tcb)) = On(s) \cup {cur_tcb}
      BY <1>3, <1>4, <3>3, <3>4, <3>5, <3>6, ListAppend
    <3>8. sleep_queue' \in [Tcb -> Tcb \cup {NULL}]
      BY <1>1, <1>3, <3>1
    <3> QED BY <1>1, <1>5, <3>1, <3>2, <3>4, <3>7, <3>8
  <2> QED BY <2>1, <2>2
<1>7. /\ Proper(pSleep_queue[m])' /\ Waiters(m)' = Waiters(m) \cup {cur_tcb}
      /\ InOrder(sleep_queue', pSleep_queue'[m])
           = Append(InOrder(sleep_queue, pSleep_queue[m]), cur_tcb)
  <2>1. Append(s, cur_tcb) \in Seq(Tcb)
    BY <1>3
  <2>2. /\ Reach(sleep_queue', pSleep_queue'[m]) = On(Append(s, cur_tcb))
        /\ InOrder(sleep_queue', pSleep_queue'[m]) = Append(s, cur_tcb)
    BY <1>6, ListReach, ListInOrder
  <2> QED BY <1>5, <1>6, <2>1, <2>2 DEF Proper, Listed, Waiters, OnList
<1>8. ASSUME NEW n \in MutexId \ {m}
      PROVE  /\ Proper(pSleep_queue[n])' /\ Waiters(n)' = Waiters(n)
             /\ InOrder(sleep_queue', pSleep_queue'[n]) = InOrder(sleep_queue, pSleep_queue[n])
  <2>1. Listed(sleep_queue, pSleep_queue[n]) /\ Waiters(n) \cap Waiters(m) = {} /\ Waiters(n) \subseteq Tcb
    BY DEF FcfsInv, ListsInv, Proper, Waiters, OnList, Reach
  <2>2. \A u \in Reach(sleep_queue, pSleep_queue[n]) : sleep_queue'[u] = sleep_queue[u]
    BY <1>6, <2>1 DEF Waiters, OnList
  <2>3. /\ Listed(sleep_queue', pSleep_queue[n])
        /\ Reach(sleep_queue', pSleep_queue[n]) = Reach(sleep_queue, pSleep_queue[n])
        /\ InOrder(sleep_queue', pSleep_queue[n]) = InOrder(sleep_queue, pSleep_queue[n])
    BY <2>1, <2>2, KeptList
  <2> QED BY <1>6, <2>3 DEF Proper, Waiters, OnList
<1>9. ASSUME NEW d \in Device
      PROVE  Proper(dev_queue[d])' /\ Sleepers(d)' = Sleepers(d)
  <2>1. Listed(sleep_queue, dev_queue[d]) /\ Sleepers(d) \cap Waiters(m) = {} /\ Sleepers(d) \subseteq Tcb
    BY DEF FcfsInv, ListsInv, Proper, Sleepers, OnList, Reach
  <2>2. \A u \in Reach(sleep_queue, dev_queue[d]) : sleep_queue'[u] = sleep_queue[u]
    BY <1>6, <2>1 DEF Sleepers, OnList
  <2>3. /\ Listed(sleep_queue', dev_queue[d])
        /\ Reach(sleep_queue', dev_queue[d]) = Reach(sleep_queue, dev_queue[d])
    BY <2>1, <2>2, KeptList
  <2> QED BY <1>2, <2>3 DEF Proper, Sleepers, OnList
<1> QED BY <1>6, <1>7, <1>8, <1>9

LEMMA LockWaitFcfs ==
    ASSUME FcfsInv, NEW m \in MutexId, LockMutex(m), bLock[m]
    PROVE  FcfsInv'
<1>1. /\ InTask /\ dispatch_sleep
      /\ UNCHANGED <<cur_prio, num_tasks, mutexExist, dev_vars, holds_lock, pHolding_Tcb, bLock>>
  BY DEF LockMutex, mutex_lock, lock_wait
<1>2. /\ run_list' \in [Prio -> Tcb \cup {NULL}]
      /\ cur_tcb' \in Tcb /\ ~fault' /\ fault' \in BOOLEAN
      /\ SlotsInv' /\ Live' = Live
      /\ Asleep' = Asleep \cup {cur_tcb}
  <2>1. fault' \in BOOLEAN
    BY <1>1 DEF dispatch_sleep, NoContext
  <2> QED BY <1>1, <2>1, DispatchSleep
<1>3. SchedTypeOK'
  <2>1. /\ cur_prio' \in [Tcb -> Prio] /\ holds_lock' \in [Tcb -> Int]
        /\ num_tasks' \in 0..(IDLE_PRIO - 1)
    BY <1>1 DEF FcfsInv, TypeOK, SchedTypeOK
  <2>2. sleep_queue' \in [Tcb -> Tcb \cup {NULL}]
    BY LockWaitLists
  <2> QED BY <1>2, <2>1, <2>2 DEF SchedTypeOK
<1>4. DeviceTypeOK'
  BY <1>1 DEF FcfsInv, TypeOK, DeviceTypeOK, dev_vars
<1>5. MutexTypeOK'
  BY <1>1, LockWaitLists DEF FcfsInv, TypeOK, MutexTypeOK
<1>6. HoldersInv'
  <2>1. \A n \in MutexId \ {m} : pSleep_queue'[n] = pSleep_queue[n]
    <3>1. pSleep_queue' = pSleep_queue \/ pSleep_queue' = [pSleep_queue EXCEPT ![m] = cur_tcb]
      BY DEF LockMutex, mutex_lock, lock_wait, joins
    <3> QED BY <3>1 DEF FcfsInv, TypeOK, MutexTypeOK
  <2>2. pHolding_Tcb[m] # NULL
    BY DEF FcfsInv, HoldersInv
  <2> QED BY <1>1, <2>1, <2>2 DEF FcfsInv, HoldersInv
<1>7. ListsInv'
  <2>1. /\ cur_tcb \in Tcb
        /\ \A d \in Device : cur_tcb \notin Sleepers(d)
        /\ \A n \in MutexId : cur_tcb \notin Waiters(n)
    BY <1>1, CallerIsReady
  <2>2. \A d \in Device : Proper(dev_queue[d])' /\ Sleepers(d)' = Sleepers(d)
    BY LockWaitLists
  <2>3. \A n \in MutexId : Proper(pSleep_queue[n])'
    BY LockWaitLists
  <2>4. \A n \in MutexId : Waiters(n)' = Waiters(n) \cup (IF n = m THEN {cur_tcb} ELSE {})
    BY LockWaitLists
  <2>5. \A t \in Live' \ Asleep' : sleep_queue'[t] = NULL
    BY <1>2, LockWaitLists, LiveRange DEF FcfsInv, ListsInv
  <2>6. \A d \in Device : Sleepers(d)' \subseteq Asleep'
    BY <1>2, <2>2 DEF FcfsInv, ListsInv
  <2>7. \A n \in MutexId : Waiters(n)' \subseteq Asleep'
    BY <1>2, <2>4 DEF FcfsInv, ListsInv
  <2>8. \A t \in Asleep' : (\E d \in Device : t \in Sleepers(d)')
                        \/ (\E n \in MutexId : t \in Waiters(n)')
    BY <1>2, <2>2, <2>4 DEF FcfsInv, ListsInv
  <2>9. \A d, e \in Device : d # e => Sleepers(d)' \cap Sleepers(e)' = {}
    BY <2>2 DEF FcfsInv, ListsInv
  <2>10. \A n, o \in MutexId : n # o => Waiters(n)' \cap Waiters(o)' = {}
    BY <2>1, <2>4 DEF FcfsInv, ListsInv
  <2>11. \A d \in Device, n \in MutexId : Sleepers(d)' \cap Waiters(n)' = {}
    BY <2>1, <2>2, <2>4 DEF FcfsInv, ListsInv
  <2> QED BY <2>2, <2>3, <2>5, <2>6, <2>7, <2>8, <2>9, <2>10, <2>11 DEF ListsInv
<1> QED BY <1>2, <1>3, <1>4, <1>5, <1>6, <1>7 DEF FcfsInv, TypeOK

\* With nobody waiting the mutex becomes free.
LEMMA UnlockFreeFcfs ==
    ASSUME FcfsInv, NEW m \in MutexId, UnlockMutex(m), pSleep_queue[m] = NULL
    PROVE  FcfsInv'
<1>1. /\ bLock' = [bLock EXCEPT ![m] = FALSE] /\ bLock \in [MutexId -> BOOLEAN]
      /\ pHolding_Tcb' = [pHolding_Tcb EXCEPT ![m] = NULL]
      /\ pHolding_Tcb \in [MutexId -> Tcb \cup {NULL}]
      /\ UNCHANGED <<pSleep_queue, sleep_queue, run_list, cur_tcb, cur_prio, holds_lock,
                     num_tasks, fault, mutexExist, dev_vars>>
  BY DEF UnlockMutex, mutex_unlock, FcfsInv, TypeOK, MutexTypeOK
<1>2. SchedTypeOK' /\ DeviceTypeOK' /\ ~fault'
  BY <1>1 DEF FcfsInv, TypeOK, SchedTypeOK, DeviceTypeOK, dev_vars
<1>3. MutexTypeOK'
  <2>1. bLock' \in [MutexId -> BOOLEAN]
    BY <1>1
  <2>2. pHolding_Tcb' \in [MutexId -> Tcb \cup {NULL}]
    BY <1>1
  <2> QED BY <1>1, <2>1, <2>2 DEF FcfsInv, TypeOK, MutexTypeOK
<1>4. HoldersInv'
  BY <1>1 DEF FcfsInv, HoldersInv
<1>5. SlotsInv' /\ ListsInv'
  BY <1>1, SameLists DEF dev_vars
<1> QED BY <1>2, <1>3, <1>4, <1>5 DEF FcfsInv, TypeOK

\* The heir leaves the front of the mutex's list and is ready; the rest of that list and
\* the others stay as they are.
HeirLeaves(m, heir) ==
    /\ heir = pSleep_queue[m] /\ heir \in Live /\ heir \in Waiters(m)
    /\ Proper(pSleep_queue[m])' /\ Waiters(m)' = Waiters(m) \ {heir}
    /\ InOrder(sleep_queue, heir) = <<heir>> \o InOrder(sleep_queue', pSleep_queue'[m])
    /\ \A n \in MutexId \ {m} :
          /\ Proper(pSleep_queue[n])' /\ Waiters(n)' = Waiters(n)
          /\ InOrder(sleep_queue', pSleep_queue'[n]) = InOrder(sleep_queue, pSleep_queue[n])
    /\ \A d \in Device : Proper(dev_queue[d])' /\ Sleepers(d)' = Sleepers(d)
    /\ sleep_queue' \in [Tcb -> Tcb \cup {NULL}]
    /\ pSleep_queue' \in [MutexId -> Tcb \cup {NULL}]
    /\ run_list' \in [Prio -> Tcb \cup {NULL}]
    /\ sleep_queue'[heir] = NULL
    /\ \A t \in Tcb \ {heir} : sleep_queue'[t] = sleep_queue[t]
    /\ \A p \in Prio : run_list'[p] = IF p = heir THEN heir ELSE run_list[p]

\* An unlock that somebody waits for makes the longest waiter the heir.
LEMMA UnlockHeirLists ==
    ASSUME FcfsInv, NEW m \in MutexId, UnlockMutex(m), pSleep_queue[m] # NULL
    PROVE  \E heir \in Asleep : HeirLeaves(m, heir)
<1>0. PICK heir : heir = pSleep_queue[m]
  OBVIOUS
<1>1. /\ sleep_queue \in [Tcb -> Tcb \cup {NULL}]
      /\ pSleep_queue \in [MutexId -> Tcb \cup {NULL}]
      /\ run_list \in [Prio -> Tcb \cup {NULL}]
      /\ Tcb = Prio
  BY DEF FcfsInv, TypeOK, SchedTypeOK, MutexTypeOK, Tcb
<1>2. /\ pSleep_queue' = [pSleep_queue EXCEPT ![m] = sleep_queue[heir]]
      /\ sleep_queue' = [sleep_queue EXCEPT ![heir] = NULL]
      /\ run_list' = [run_list EXCEPT ![cur_prio[heir]] = heir]
      /\ dev_queue' = dev_queue
  BY <1>0 DEF UnlockMutex, mutex_unlock, Unlinked, Requeue, dev_vars
<1>3. PICK s \in Seq(Tcb) : IsList(sleep_queue, s, heir)
  BY <1>0 DEF FcfsInv, ListsInv, Proper, Listed
<1>4. On(s) = Waiters(m) /\ InOrder(sleep_queue, heir) = s /\ Waiters(m) \subseteq Tcb
  BY <1>0, <1>3, ListReach, ListInOrder DEF Waiters, OnList, Reach
<1>5. /\ heir \in Tcb /\ heir \in On(s)
      /\ IsList(sleep_queue, Tail(s), sleep_queue[heir])
      /\ On(Tail(s)) = On(s) \ {heir}
      /\ s = <<heir>> \o Tail(s)
  BY <1>0, <1>3, ListTail
<1>6. heir \in Asleep /\ heir \in Live /\ cur_prio[heir] = heir
  BY <1>4, <1>5 DEF FcfsInv, ListsInv, SlotsInv, Asleep
<1>7. /\ sleep_queue' \in [Tcb -> Tcb \cup {NULL}]
      /\ pSleep_queue' \in [MutexId -> Tcb \cup {NULL}]
      /\ run_list' \in [Prio -> Tcb \cup {NULL}]
      /\ sleep_queue'[heir] = NULL
      /\ \A t \in Tcb \ {heir} : sleep_queue'[t] = sleep_queue[t]
      /\ \A p \in Prio : run_list'[p] = IF p = heir THEN heir ELSE run_list[p]
      /\ pSleep_queue'[m] = sleep_queue[heir]
      /\ \A n \in MutexId \ {m} : pSleep_queue'[n] = pSleep_queue[n]
  BY <1>1, <1>2, <1>5, <1>6
<1>8. /\ Proper(pSleep_queue[m])' /\ Waiters(m)' = Waiters(m) \ {heir}
      /\ InOrder(sleep_queue, heir) = <<heir>> \o InOrder(sleep_queue', pSleep_queue'[m])
  <2>1. \A u \in On(Tail(s)) : sleep_queue'[u] = sleep_queue[u]
    BY <1>4, <1>5, <1>7
  <2>2. IsList(sleep_queue', Tail(s), pSleep_queue'[m])
    BY <1>5, <1>7, <2>1, ListFrame
  <2>3. Tail(s) \in Seq(Tcb)
    BY <1>5 DEF IsList
  <2>4. /\ Reach(sleep_queue', pSleep_queue'[m]) = On(Tail(s))
        /\ InOrder(sleep_queue', pSleep_queue'[m]) = Tail(s)
    BY <2>2, ListReach, ListInOrder
  <2> QED BY <1>4, <1>5, <2>2, <2>3, <2>4 DEF Proper, Listed, Waiters, OnList
<1>9. ASSUME NEW n \in MutexId \ {m}
      PROVE  /\ Proper(pSleep_queue[n])' /\ Waiters(n)' = Waiters(n)
             /\ InOrder(sleep_queue', pSleep_queue'[n]) = InOrder(sleep_queue, pSleep_queue[n])
  <2>1. Listed(sleep_queue, pSleep_queue[n]) /\ Waiters(n) \cap Waiters(m) = {} /\ Waiters(n) \subseteq Tcb
    BY DEF FcfsInv, ListsInv, Proper, Waiters, OnList, Reach
  <2>2. \A u \in Reach(sleep_queue, pSleep_queue[n]) : sleep_queue'[u] = sleep_queue[u]
    BY <1>4, <1>5, <1>7, <2>1 DEF Waiters, OnList
  <2>3. /\ Listed(sleep_queue', pSleep_queue[n])
        /\ Reach(sleep_queue', pSleep_queue[n]) = Reach(sleep_queue, pSleep_queue[n])
        /\ InOrder(sleep_queue', pSleep_queue[n]) = InOrder(sleep_queue, pSleep_queue[n])
    BY <2>1, <2>2, KeptList
  <2> QED BY <1>7, <2>3 DEF Proper, Waiters, OnList
<1>10. ASSUME NEW d \in Device
       PROVE  Proper(dev_queue[d])' /\ Sleepers(d)' = Sleepers(d)
  <2>1. Listed(sleep_queue, dev_queue[d]) /\ Sleepers(d) \cap Waiters(m) = {} /\ Sleepers(d) \subseteq Tcb
    BY DEF FcfsInv, ListsInv, Proper, Sleepers, OnList, Reach
  <2>2. \A u \in Reach(sleep_queue, dev_queue[d]) : sleep_queue'[u] = sleep_queue[u]
    BY <1>4, <1>5, <1>7, <2>1 DEF Sleepers, OnList
  <2>3. /\ Listed(sleep_queue', dev_queue[d])
        /\ Reach(sleep_queue', dev_queue[d]) = Reach(sleep_queue, dev_queue[d])
    BY <2>1, <2>2, KeptList
  <2> QED BY <1>2, <2>3 DEF Proper, Sleepers, OnList
<1>11. heir \in Waiters(m)
  BY <1>4, <1>5, Zenon
<1>12. HeirLeaves(m, heir)
  BY <1>0, <1>6, <1>7, <1>8, <1>9, <1>10, <1>11, Zenon DEF HeirLeaves
<1> QED BY <1>6, <1>12, Zenon

LEMMA UnlockHeirFcfs ==
    ASSUME FcfsInv, NEW m \in MutexId, UnlockMutex(m), pSleep_queue[m] # NULL
    PROVE  FcfsInv'
<1>00. PICK heir \in Asleep : HeirLeaves(m, heir)
  BY UnlockHeirLists, Zenon
<1>0. /\ heir = pSleep_queue[m] /\ heir \in Live /\ heir \in Waiters(m)
      /\ sleep_queue' \in [Tcb -> Tcb \cup {NULL}]
      /\ pSleep_queue' \in [MutexId -> Tcb \cup {NULL}]
      /\ run_list' \in [Prio -> Tcb \cup {NULL}]
      /\ sleep_queue'[heir] = NULL
      /\ \A t \in Tcb \ {heir} : sleep_queue'[t] = sleep_queue[t]
      /\ \A p \in Prio : run_list'[p] = IF p = heir THEN heir ELSE run_list[p]
      /\ Proper(pSleep_queue[m])' /\ Waiters(m)' = Waiters(m) \ {heir}
      /\ \A n \in MutexId \ {m} : Proper(pSleep_queue[n])' /\ Waiters(n)' = Waiters(n)
      /\ \A d \in Device : Proper(dev_queue[d])' /\ Sleepers(d)' = Sleepers(d)
  BY <1>00, Zenon DEF HeirLeaves
<1>1. /\ bLock' = [bLock EXCEPT ![m] = TRUE] /\ bLock \in [MutexId -> BOOLEAN]
      /\ pHolding_Tcb' = [pHolding_Tcb EXCEPT ![m] = heir]
      /\ pHolding_Tcb \in [MutexId -> Tcb \cup {NULL}]
      /\ pSleep_queue' = [pSleep_queue EXCEPT ![m] = sleep_queue[heir]]
      /\ UNCHANGED <<cur_tcb, cur_prio, holds_lock, num_tasks, fault, mutexExist, dev_vars>>
  BY <1>0 DEF UnlockMutex, mutex_unlock, FcfsInv, TypeOK, MutexTypeOK
<1>4. Live \in SUBSET Tcb /\ NULL \notin Tcb /\ Tcb = Prio /\ IDLE_PRIO \notin Live
      /\ IDLE_PRIO \in Prio
  BY LiveRange DEF FcfsInv
<1>5. SchedTypeOK' /\ DeviceTypeOK' /\ ~fault'
  BY <1>1, <1>0 DEF FcfsInv, TypeOK, SchedTypeOK, DeviceTypeOK, dev_vars
<1>6. MutexTypeOK'
  <2>1. bLock' \in [MutexId -> BOOLEAN]
    BY <1>1
  <2>2. pHolding_Tcb' \in [MutexId -> Tcb \cup {NULL}]
    BY <1>1, <1>0, <1>4
  <2> QED BY <1>1, <1>0, <2>1, <2>2 DEF FcfsInv, TypeOK, MutexTypeOK
<1>7. HoldersInv'
  <2>1. heir # NULL
    BY <1>0, <1>4
  <2>2. pSleep_queue \in [MutexId -> Tcb \cup {NULL}]
    BY DEF FcfsInv, TypeOK, MutexTypeOK
  <2> QED BY <1>1, <2>1, <2>2 DEF FcfsInv, HoldersInv
<1>8. Live' = Live
  BY <1>1 DEF Live
<1>9. Asleep' = Asleep \ {heir}
  BY <1>0, <1>4, <1>8 DEF Asleep
<1>10. SlotsInv'
  <2>1. \A p \in Prio : run_list'[p] = NULL \/ (run_list'[p] = p /\ p \in Live \cup {IDLE_PRIO})
    BY <1>0 DEF FcfsInv, SlotsInv
  <2>2. cur_tcb # NULL => run_list'[cur_tcb] = cur_tcb /\ run_list'[IDLE_PRIO] = IDLE_PRIO
    BY <1>0, <1>4 DEF FcfsInv, SlotsInv, TypeOK, SchedTypeOK
  <2> QED BY <1>1, <1>8, <2>1, <2>2 DEF FcfsInv, SlotsInv
<1>11. ListsInv'
  <2>1. \A n \in MutexId : Proper(pSleep_queue[n])'
    BY <1>0
  <2>2. \A n \in MutexId : Waiters(n)' = IF n = m THEN Waiters(m) \ {heir} ELSE Waiters(n)
    BY <1>0
  <2>3. /\ \A n \in MutexId \ {m} : heir \notin Waiters(n)
        /\ \A d \in Device : heir \notin Sleepers(d)
    BY <1>0 DEF FcfsInv, ListsInv
  <2>4. \A t \in Live' \ Asleep' : sleep_queue'[t] = NULL
    BY <1>0, <1>4, <1>8, <1>9 DEF FcfsInv, ListsInv
  <2>5. \A d \in Device : Sleepers(d)' \subseteq Asleep'
    BY <1>0, <1>9, <2>3 DEF FcfsInv, ListsInv
  <2>6. \A n \in MutexId : Waiters(n)' \subseteq Asleep'
    BY <1>9, <2>2, <2>3 DEF FcfsInv, ListsInv
  <2>7. \A t \in Asleep' : (\E d \in Device : t \in Sleepers(d)')
                        \/ (\E n \in MutexId : t \in Waiters(n)')
    BY <1>0, <1>9, <2>2 DEF FcfsInv, ListsInv
  <2>8. \A d, e \in Device : d # e => Sleepers(d)' \cap Sleepers(e)' = {}
    BY <1>0 DEF FcfsInv, ListsInv
  <2>9. \A n, o \in MutexId : n # o => Waiters(n)' \cap Waiters(o)' = {}
    BY <2>2 DEF FcfsInv, ListsInv
  <2>10. \A d \in Device, n \in MutexId : Sleepers(d)' \cap Waiters(n)' = {}
    BY <1>0, <2>2 DEF FcfsInv, ListsInv
  <2> QED BY <1>0, <2>1, <2>4, <2>5, <2>6, <2>7, <2>8, <2>9, <2>10 DEF ListsInv
<1> QED BY <1>5, <1>6, <1>7, <1>10, <1>11 DEF FcfsInv, TypeOK

\* What one tick does to the lists: the due devices' lists are emptied, the tasks of
\* them and nobody else move from the lists to their own slots.
IrqDue   == {d \in Device : Due(d, get_millis')}
IrqWoken == Woken(IrqDue)

LEMMA IrqStep ==
    ASSUME Irq
    PROVE  /\ timer' = (timer + 1) % WORD
           /\ next_match' = [d \in Device |->
                  IF d \in IrqDue THEN (get_millis' + dev_freq[d]) % WORD ELSE next_match[d]]
           /\ dev_queue' = [d \in Device |-> IF d \in IrqDue THEN NULL ELSE dev_queue[d]]
           /\ sleep_queue' = [t \in Tcb |-> IF t \in IrqWoken THEN NULL ELSE sleep_queue[t]]
           /\ run_list' \in Requeued(IrqWoken)
           /\ IF IrqWoken = {} THEN UNCHANGED <<cur_tcb, fault>> ELSE dispatch_save(run_list')
           /\ UNCHANGED <<cur_prio, holds_lock, num_tasks, mutex_vars>>
BY DEF Irq, irq_handler, timer_handler, dev_update, IrqDue, IrqWoken

LEMMA IrqLists ==
    ASSUME FcfsInv, Irq
    PROVE  /\ IrqWoken \in SUBSET Asleep
           /\ \A d \in Device : Proper(dev_queue[d])'
           /\ \A d \in IrqDue : Sleepers(d)' = {} /\ Sleepers(d) \subseteq IrqWoken
           /\ \A d \in Device \ IrqDue : Sleepers(d)' = Sleepers(d) /\ Sleepers(d) \cap IrqWoken = {}
           /\ \A m \in MutexId :
                 /\ Proper(pSleep_queue[m])' /\ Waiters(m)' = Waiters(m)
                 /\ Waiters(m) \cap IrqWoken = {}
                 /\ InOrder(sleep_queue', pSleep_queue'[m]) = InOrder(sleep_queue, pSleep_queue[m])
           /\ \A p \in Prio : run_list'[p] = IF p \in IrqWoken THEN p ELSE run_list[p]
           /\ run_list' \in [Prio -> Tcb \cup {NULL}]
           /\ sleep_queue' \in [Tcb -> Tcb \cup {NULL}]
           /\ dev_queue' \in [Device -> Tcb \cup {NULL}]
           /\ \A t \in Tcb : sleep_queue'[t] = IF t \in IrqWoken THEN NULL ELSE sleep_queue[t]
<1>1. /\ sleep_queue \in [Tcb -> Tcb \cup {NULL}]
      /\ dev_queue \in [Device -> Tcb \cup {NULL}]
      /\ run_list \in [Prio -> Tcb \cup {NULL}]
      /\ Live \in SUBSET Tcb /\ NULL \notin Tcb /\ Tcb = Prio
  BY LiveRange DEF FcfsInv, TypeOK, SchedTypeOK, DeviceTypeOK
<1>2. /\ dev_queue' = [d \in Device |-> IF d \in IrqDue THEN NULL ELSE dev_queue[d]]
      /\ sleep_queue' = [t \in Tcb |-> IF t \in IrqWoken THEN NULL ELSE sleep_queue[t]]
      /\ run_list' \in Requeued(IrqWoken)
      /\ pSleep_queue' = pSleep_queue
  BY IrqStep DEF mutex_vars
<1>3. IrqWoken = UNION {Sleepers(d) : d \in IrqDue} /\ IrqDue \in SUBSET Device
  BY DEF IrqWoken, Woken, IrqDue
<1> HIDE DEF IrqDue, IrqWoken
<1>4. IrqWoken \in SUBSET Asleep
  BY <1>3 DEF FcfsInv, ListsInv
<1>5. /\ sleep_queue' \in [Tcb -> Tcb \cup {NULL}]
      /\ dev_queue' \in [Device -> Tcb \cup {NULL}]
      /\ \A t \in Tcb : sleep_queue'[t] = IF t \in IrqWoken THEN NULL ELSE sleep_queue[t]
  BY <1>1, <1>2
<1>6. ASSUME NEW d \in IrqDue
      PROVE  Proper(dev_queue[d])' /\ Sleepers(d)' = {} /\ Sleepers(d) \subseteq IrqWoken
  <2>1. dev_queue'[d] = NULL
    BY <1>2, <1>3
  <2>2. <<>> \in Seq(Tcb)
    OBVIOUS
  <2>3. Sleepers(d) \subseteq IrqWoken
    BY <1>3
  <2> QED BY <2>1, <2>2, <2>3, EmptyList DEF Proper, Listed, Sleepers, OnList
<1>7. ASSUME NEW d \in Device \ IrqDue
      PROVE  Proper(dev_queue[d])' /\ Sleepers(d)' = Sleepers(d) /\ Sleepers(d) \cap IrqWoken = {}
  <2>1. Listed(sleep_queue, dev_queue[d]) /\ Sleepers(d) \subseteq Tcb /\ Sleepers(d) \cap IrqWoken = {}
    BY <1>3 DEF FcfsInv, ListsInv, Proper, Sleepers, OnList, Reach
  <2>2. \A u \in Reach(sleep_queue, dev_queue[d]) : sleep_queue'[u] = sleep_queue[u]
    BY <1>5, <2>1 DEF Sleepers, OnList
  <2>3. /\ Listed(sleep_queue', dev_queue[d])
        /\ Reach(sleep_queue', dev_queue[d]) = Reach(sleep_queue, dev_queue[d])
    BY <2>1, <2>2, KeptList
  <2>4. dev_queue'[d] = dev_queue[d]
    BY <1>2
  <2> QED BY <2>1, <2>3, <2>4 DEF Proper, Sleepers, OnList
<1>8. ASSUME NEW m \in MutexId
      PROVE  /\ Proper(pSleep_queue[m])' /\ Waiters(m)' = Waiters(m)
             /\ Waiters(m) \cap IrqWoken = {}
             /\ InOrder(sleep_queue', pSleep_queue'[m]) = InOrder(sleep_queue, pSleep_queue[m])
  <2>1. Listed(sleep_queue, pSleep_queue[m]) /\ Waiters(m) \subseteq Tcb /\ Waiters(m) \cap IrqWoken = {}
    BY <1>3 DEF FcfsInv, ListsInv, Proper, Waiters, OnList, Reach
  <2>2. \A u \in Reach(sleep_queue, pSleep_queue[m]) : sleep_queue'[u] = sleep_queue[u]
    BY <1>5, <2>1 DEF Waiters, OnList
  <2>3. /\ Listed(sleep_queue', pSleep_queue[m])
        /\ Reach(sleep_queue', pSleep_queue[m]) = Reach(sleep_queue, pSleep_queue[m])
        /\ InOrder(sleep_queue', pSleep_queue[m]) = InOrder(sleep_queue, pSleep_queue[m])
    BY <2>1, <2>2, KeptList
  <2> QED BY <1>2, <2>1, <2>3 DEF Proper, Waiters, OnList
<1>9. \A t \in IrqWoken : cur_prio[t] = t /\ t \in Tcb
  BY <1>1, <1>4 DEF Asleep, FcfsInv, SlotsInv
<1>10. {cur_prio[t] : t \in IrqWoken} = IrqWoken
  BY <1>9
<1>11. PICK last \in [IrqWoken -> IrqWoken] :
          /\ \A p \in IrqWoken : cur_prio[last[p]] = p
          /\ run_list' = [p \in Prio |-> IF p \in IrqWoken THEN last[p] ELSE run_list[p]]
  <2> DEFINE prios == {cur_prio[t] : t \in IrqWoken}
  <2>1. PICK last \in [prios -> IrqWoken] :
            /\ \A p \in prios : cur_prio[last[p]] = p
            /\ run_list' = [p \in Prio |-> IF p \in prios THEN last[p] ELSE run_list[p]]
    BY <1>2 DEF Requeued
  <2>2. prios = IrqWoken
    BY <1>10
  <2> HIDE DEF prios
  <2> QED BY <2>1, <2>2
<1>12. \A p \in IrqWoken : last[p] = p
  BY <1>9, <1>11
<1>13. \A p \in Prio : run_list'[p] = IF p \in IrqWoken THEN p ELSE run_list[p]
  BY <1>11, <1>12
<1>14. run_list' \in [Prio -> Tcb \cup {NULL}]
  BY <1>1, <1>9, <1>11, <1>12
<1> QED BY <1>4, <1>5, <1>6, <1>7, <1>8, <1>13, <1>14

\* Who runs after a tick: the same task, or the highest ready one.
LEMMA IrqDispatch ==
    ASSUME FcfsInv, Irq
    PROVE  /\ ~fault' /\ fault' \in BOOLEAN
           /\ \/ cur_tcb' = cur_tcb
              \/ cur_tcb # NULL /\ cur_tcb' \in Prio /\ run_list'[cur_tcb'] = cur_tcb'
<1>1. /\ IF IrqWoken = {} THEN UNCHANGED <<cur_tcb, fault>> ELSE dispatch_save(run_list')
      /\ fault \in BOOLEAN
  BY IrqStep DEF FcfsInv, TypeOK, SchedTypeOK
<1>2. CASE IrqWoken = {} \/ KeepsRunning(run_list')
  BY <1>1, <1>2 DEF dispatch_save, FcfsInv
<1>3. CASE IrqWoken # {} /\ ~KeepsRunning(run_list')
  <2>1. cur_tcb' = highest_prio(run_list') /\ fault' = (cur_tcb' = TOP_PRIO)
    BY <1>1, <1>3 DEF dispatch_save, NoContext
  <2>2. PICK t \in IrqWoken : t \in Live /\ t \in Tcb
    BY <1>3, IrqLists, LiveRange DEF Asleep, FcfsInv
  <2>3. cur_tcb # NULL
    <3>1. num_tasks # 0
      BY <2>2 DEF Live
    <3> QED BY <3>1 DEF FcfsInv, SlotsInv
  <2>4. Ready(run_list') # {}
    BY <2>2, IrqLists, LiveRange DEF Ready, FcfsInv
  <2>5. cur_tcb' \in Prio /\ run_list'[cur_tcb'] # NULL
    BY <2>1, <2>4, HighestIsReady
  <2>6. run_list'[cur_tcb'] = cur_tcb' /\ cur_tcb' \in Live \cup {IDLE_PRIO}
    BY <2>5, IrqLists DEF FcfsInv, SlotsInv, Asleep
  <2>7. cur_tcb' # TOP_PRIO
    BY <2>6, LiveRange DEF FcfsInv
  <2> QED BY <2>1, <2>3, <2>5, <2>6, <2>7
<1> QED BY <1>2, <1>3

LEMMA IrqFcfs ==
    ASSUME FcfsInv, Irq
    PROVE  FcfsInv'
<1>1. /\ timer' = (timer + 1) % WORD
      /\ next_match' = [d \in Device |->
             IF d \in IrqDue THEN (get_millis' + dev_freq[d]) % WORD ELSE next_match[d]]
      /\ UNCHANGED <<cur_prio, holds_lock, num_tasks, mutex_vars>>
  BY IrqStep
<1>2. /\ IrqWoken \in SUBSET Asleep
      /\ \A d \in Device : Proper(dev_queue[d])'
      /\ \A d \in IrqDue : Sleepers(d)' = {} /\ Sleepers(d) \subseteq IrqWoken
      /\ \A d \in Device \ IrqDue : Sleepers(d)' = Sleepers(d) /\ Sleepers(d) \cap IrqWoken = {}
      /\ \A m \in MutexId : /\ Proper(pSleep_queue[m])' /\ Waiters(m)' = Waiters(m)
                            /\ Waiters(m) \cap IrqWoken = {}
  BY IrqLists
<1>3. /\ \A p \in Prio : run_list'[p] = IF p \in IrqWoken THEN p ELSE run_list[p]
      /\ run_list' \in [Prio -> Tcb \cup {NULL}]
      /\ sleep_queue' \in [Tcb -> Tcb \cup {NULL}]
      /\ dev_queue' \in [Device -> Tcb \cup {NULL}]
      /\ \A t \in Tcb : sleep_queue'[t] = IF t \in IrqWoken THEN NULL ELSE sleep_queue[t]
  BY IrqLists
<1>4. Live' = Live /\ Live \in SUBSET Tcb /\ NULL \notin Tcb /\ Tcb = Prio
  BY <1>1, LiveRange DEF Live, FcfsInv
<1>5. IDLE_PRIO \notin Live /\ IDLE_PRIO \in Prio
  BY LiveRange DEF FcfsInv
<1>6. SchedTypeOK'
  <2>1. cur_tcb' \in Tcb \cup {NULL}
    BY <1>4, IrqDispatch DEF FcfsInv, TypeOK, SchedTypeOK
  <2>2. /\ cur_prio' \in [Tcb -> Prio] /\ holds_lock' \in [Tcb -> Int]
        /\ num_tasks' \in 0..(IDLE_PRIO - 1)
    BY <1>1 DEF FcfsInv, TypeOK, SchedTypeOK
  <2>3. fault' \in BOOLEAN
    BY IrqDispatch
  <2> QED BY <1>3, <2>1, <2>2, <2>3 DEF SchedTypeOK
<1>7. DeviceTypeOK'
  <2>1. timer' \in Millis
    BY <1>1, WordAssumption DEF FcfsInv, TypeOK, DeviceTypeOK, Millis
  <2>2. get_millis' \in Millis
    <3> DEFINE passed == timer' * OS_TIMER_RESOLUTION
    <3>1. timer' \in Nat
      BY <2>1, WordAssumption DEF Millis
    <3>2. passed \in Nat
      <4>1. \A a, b \in Nat : a * b \in Nat
        OBVIOUS
      <4> QED BY <3>1, <4>1, TickAssumption
    <3>3. get_millis' = passed % WORD
      BY DEF get_millis
    <3> HIDE DEF passed
    <3> QED BY <3>2, <3>3, WordAssumption DEF Millis
  <2>3. \A d \in Device : (get_millis' + dev_freq[d]) % WORD \in Millis
    <3> SUFFICES ASSUME NEW d \in Device, NEW now \in Millis
                 PROVE  (now + dev_freq[d]) % WORD \in Millis
      BY <2>2
    <3> QED BY WordAssumption, FreqAssumption DEF Millis
  <2>4. next_match' \in [Device -> Millis]
    BY <1>1, <2>3 DEF FcfsInv, TypeOK, DeviceTypeOK
  <2> QED BY <1>3, <2>1, <2>4 DEF DeviceTypeOK
<1>8. MutexTypeOK' /\ HoldersInv'
  BY <1>1 DEF FcfsInv, TypeOK, MutexTypeOK, HoldersInv, mutex_vars
<1>9. SlotsInv'
  <2>1. \A p \in Prio : run_list'[p] = NULL \/ (run_list'[p] = p /\ p \in Live \cup {IDLE_PRIO})
    BY <1>2, <1>3 DEF FcfsInv, SlotsInv, Asleep
  <2>2. \A p \in Prio : run_list[p] = p => run_list'[p] = p
    BY <1>3
  <2>3. cur_tcb' = NULL => cur_tcb = NULL
    BY <1>4, IrqDispatch
  <2>4. cur_tcb # NULL => cur_tcb \in Prio /\ run_list[cur_tcb] = cur_tcb /\ run_list[IDLE_PRIO] = IDLE_PRIO
    BY DEF FcfsInv, SlotsInv, TypeOK, SchedTypeOK, Tcb
  <2>5. cur_tcb' # NULL => run_list'[cur_tcb'] = cur_tcb' /\ run_list'[IDLE_PRIO] = IDLE_PRIO
    BY <1>5, <2>2, <2>4, IrqDispatch
  <2> QED BY <1>1, <1>4, <2>1, <2>3, <2>5 DEF FcfsInv, SlotsInv
<1>10. Asleep' = Asleep \ IrqWoken
  BY <1>2, <1>3, <1>4 DEF Asleep
<1>11. ListsInv'
  <2>1. \A d \in Device : Sleepers(d)' = Sleepers(d) \ IrqWoken
    BY <1>2
  <2>2. \A m \in MutexId : Waiters(m)' = Waiters(m) \ IrqWoken
    BY <1>2
  <2>3. \A t \in Live' \ Asleep' : sleep_queue'[t] = NULL
    BY <1>3, <1>4, <1>10 DEF FcfsInv, ListsInv
  <2>4. \A d \in Device : Sleepers(d)' \subseteq Asleep'
    BY <1>10, <2>1 DEF FcfsInv, ListsInv
  <2>5. \A m \in MutexId : Waiters(m)' \subseteq Asleep'
    BY <1>10, <2>2 DEF FcfsInv, ListsInv
  <2>6. \A t \in Asleep' : (\E d \in Device : t \in Sleepers(d)')
                        \/ (\E m \in MutexId : t \in Waiters(m)')
    BY <1>10, <2>1, <2>2 DEF FcfsInv, ListsInv
  <2>7. \A d, e \in Device : d # e => Sleepers(d)' \cap Sleepers(e)' = {}
    BY <2>1 DEF FcfsInv, ListsInv
  <2>8. \A m, n \in MutexId : m # n => Waiters(m)' \cap Waiters(n)' = {}
    BY <2>2 DEF FcfsInv, ListsInv
  <2>9. \A d \in Device, m \in MutexId : Sleepers(d)' \cap Waiters(m)' = {}
    BY <2>1, <2>2 DEF FcfsInv, ListsInv
  <2> QED BY <1>2, <2>3, <2>4, <2>5, <2>6, <2>7, <2>8, <2>9 DEF ListsInv
<1> QED BY <1>6, <1>7, <1>8, <1>9, <1>11, IrqDispatch DEF FcfsInv, TypeOK

LEMMA StepFcfs == FcfsInv /\ [Next]_vars => FcfsInv'
<1> SUFFICES ASSUME FcfsInv, [Next]_vars PROVE FcfsInv'
  OBVIOUS
<1>1. ASSUME NEW m \in MutexId, LockMutex(m) PROVE FcfsInv'
  BY <1>1, LockFreeFcfs, LockWaitFcfs
<1>2. ASSUME NEW m \in MutexId, UnlockMutex(m) PROVE FcfsInv'
  BY <1>2, UnlockFreeFcfs, UnlockHeirFcfs
<1>3. CASE Next
  BY <1>1, <1>2, <1>3, TaskCreateFcfs, EventWaitFcfs, CreateMutexFcfs, IrqFcfs DEF Next
<1>4. CASE UNCHANGED vars
  <2> USE <1>4 DEF vars, sched_vars, dev_vars, mutex_vars, FcfsInv
  <2>1. SchedTypeOK' /\ DeviceTypeOK' /\ MutexTypeOK'
    BY DEF TypeOK, SchedTypeOK, DeviceTypeOK, MutexTypeOK
  <2>2. SlotsInv' /\ ListsInv'
    BY SameLists
  <2>3. HoldersInv' /\ ~fault'
    BY DEF HoldersInv
  <2> QED BY <2>1, <2>2, <2>3 DEF TypeOK
<1> QED BY <1>3, <1>4

\* The lists of the part1 kernel are lists, whatever the programs call.
THEOREM FcfsInvariance == Spec => []FcfsInv
BY InitFcfs, StepFcfs, PTL DEF Spec

-----------------------------------------------------------------------------
(* Each task in one place.                                                 *)

\* Whatever the tasks of a part1 set call, and in whatever order, no task is ever lost,
\* and none is on two lists through its one link (device.c:70, mutex.c:71-78, 110-115).
THEOREM EachTaskPlaced == Spec => []EachTaskInOnePlace
<1>1. FcfsInv => EachTaskInOnePlace
  <2> SUFFICES ASSUME FcfsInv PROVE EachTaskInOnePlace
    OBVIOUS
  <2>1. ASSUME NEW t \in Live
        PROVE  LET devs == {d \in Device : t \in Sleepers(d)}
                   muts == {m \in MutexId : t \in Waiters(m)}
               IN  IF run_list[t] = t THEN devs = {} /\ muts = {}
                                      ELSE Cardinality(devs) + Cardinality(muts) = 1
    <3> DEFINE devs == {d \in Device : t \in Sleepers(d)}
               muts == {m \in MutexId : t \in Waiters(m)}
    <3>1. t \in Prio /\ t # NULL
      BY LiveRange DEF FcfsInv
    <3>2. CASE run_list[t] = t
      <4>1. t \notin Asleep
        BY <3>1, <3>2 DEF Asleep
      <4>2. devs = {} /\ muts = {}
        BY <4>1 DEF FcfsInv, ListsInv
      <4> QED BY <3>2, <4>2
    <3>3. CASE run_list[t] # t
      <4>1. t \in Asleep
        BY <3>1, <3>3 DEF Asleep, FcfsInv, SlotsInv
      <4>2. CASE \E d \in Device : t \in Sleepers(d)
        <5>1. PICK d \in Device : t \in Sleepers(d)
          BY <4>2
        <5>2. devs = {d} /\ muts = {}
          BY <5>1 DEF FcfsInv, ListsInv
        <5>3. Cardinality(devs) = 1 /\ Cardinality(muts) = 0
          BY <5>2, FS_Singleton, FS_EmptySet
        <5> QED BY <3>3, <5>3
      <4>3. CASE \E m \in MutexId : t \in Waiters(m)
        <5>1. PICK m \in MutexId : t \in Waiters(m)
          BY <4>3
        <5>2. devs = {} /\ muts = {m}
          BY <5>1 DEF FcfsInv, ListsInv
        <5>3. Cardinality(devs) = 0 /\ Cardinality(muts) = 1
          BY <5>2, FS_Singleton, FS_EmptySet
        <5> QED BY <3>3, <5>3
      <4> QED BY <4>1, <4>2, <4>3 DEF FcfsInv, ListsInv
    <3> QED BY <3>2, <3>3
  <2> QED BY <2>1 DEF EachTaskInOnePlace, FcfsInv
<1> QED BY <1>1, FcfsInvariance, PTL

-----------------------------------------------------------------------------
(* First come, first served.                                               *)

LEMMA HolderAndWaiters ==
    ASSUME NEW S, NEW h, NEW s \in Seq(S)
    PROVE  /\ <<h>> \o s # <<>> /\ Len(<<h>> \o s) = Len(s) + 1 /\ Len(s) \in Nat
           /\ Head(<<h>> \o s) = h /\ Tail(<<h>> \o s) = s
           /\ (<<h>> \o s)[1] = h
           /\ \A k \in 2..Len(<<h>> \o s) : (<<h>> \o s)[k] \in On(s)
<1> DEFINE q == <<h>> \o s
           T == S \cup {h}
<1>1. <<h>> \in Seq(T) /\ s \in Seq(T) /\ Len(s) \in Nat
  OBVIOUS
<1>2. /\ q \in Seq(T) /\ Len(q) = Len(s) + 1 /\ q[1] = h
      /\ \A k \in 2..Len(q) : q[k] = s[k - 1] /\ k - 1 \in 1..Len(s)
  BY <1>1
<1>3. \A k \in 2..Len(q) : q[k] \in On(s)
  BY <1>2 DEF On
<1>4. Head(q) = h /\ Tail(q) = s /\ q # <<>>
  BY <1>1
<1> QED BY <1>1, <1>2, <1>3, <1>4

LEMMA AppendBehindHolder ==
    ASSUME NEW S, NEW h, NEW s \in Seq(S), NEW c \in S
    PROVE  Append(<<h>> \o s, c) = <<h>> \o Append(s, c)
<1>1. <<h>> \in Seq(S \cup {h}) /\ s \in Seq(S \cup {h})
  OBVIOUS
<1> QED BY <1>1

\* The queue of a mutex that is held: the holder and the sequence of its list.
LEMMA QueueOfMutex ==
    ASSUME FcfsInv, NEW m \in MutexId
    PROVE  /\ InOrder(sleep_queue, pSleep_queue[m]) \in Seq(Tcb)
           /\ On(InOrder(sleep_queue, pSleep_queue[m])) = Waiters(m)
           /\ pSleep_queue[m] = NULL => InOrder(sleep_queue, pSleep_queue[m]) = <<>>
           /\ bLock[m] => Queues[m] = <<pHolding_Tcb[m]>> \o InOrder(sleep_queue, pSleep_queue[m])
           /\ ~bLock[m] => Queues[m] = <<>>
<1>1. PICK s \in Seq(Tcb) : IsList(sleep_queue, s, pSleep_queue[m])
  BY DEF FcfsInv, ListsInv, Proper, Listed
<1>2. On(s) = Waiters(m) /\ InOrder(sleep_queue, pSleep_queue[m]) = s
  BY <1>1, ListReach, ListInOrder DEF Waiters, OnList
<1> QED BY <1>1, <1>2, EmptyList DEF Queues

\* Only tasks that wait for a mutex are behind its holder.
BlockedWait == \A t : Promise!Blocked(t, Queues) => \E m \in MutexId : t \in Waiters(m)

LEMMA OnlyWaitersBlocked == FcfsInv => BlockedWait
<1> SUFFICES ASSUME FcfsInv, NEW t, Promise!Blocked(t, Queues)
             PROVE  \E m \in MutexId : t \in Waiters(m)
  BY DEF BlockedWait
<1>1. PICK m \in MutexId : \E k \in 2..Len(Queues[m]) : Queues[m][k] = t
  BY DEF Promise!Blocked
<1>2. bLock[m]
  <2>1. Queues[m] # <<>>
    BY <1>1
  <2> QED BY <2>1, QueueOfMutex
<1>3. t \in On(InOrder(sleep_queue, pSleep_queue[m]))
  <2> DEFINE s == InOrder(sleep_queue, pSleep_queue[m])
             q == <<pHolding_Tcb[m]>> \o s
  <2>1. s \in Seq(Tcb) /\ Queues[m] = q
    BY <1>2, QueueOfMutex
  <2>2. \A k \in 2..Len(q) : q[k] \in On(s)
    <3> HIDE DEF s
    <3> QED BY <2>1, HolderAndWaiters
  <2> HIDE DEF s, q
  <2>3. t \in On(s)
    BY <1>1, <2>1, <2>2
  <2> QED BY <2>3 DEF s
<1> QED BY <1>3, QueueOfMutex

LEMMA OnlyWaitersBlockedNext == FcfsInv' => BlockedWait'
BY OnlyWaitersBlocked, PTL

\* A task that is ready waits for no mutex.
LEMMA ReadyNotBlocked ==
    ASSUME FcfsInv, BlockedWait, NEW t, t # NULL, run_list[t] = t
    PROVE  ~Promise!Blocked(t, Queues)
<1>1. \A m \in MutexId : t \notin Waiters(m)
  BY DEF FcfsInv, ListsInv, Asleep
<1> QED BY <1>1 DEF BlockedWait

LEMMA ReadyNotBlockedNext ==
    ASSUME FcfsInv', NEW t, t # NULL, run_list'[t] = t
    PROVE  ~Promise!Blocked(t, Queues')
<1>1. \A m \in MutexId : t \notin Waiters(m)'
  BY DEF FcfsInv, ListsInv, Asleep
<1>2. BlockedWait'
  BY OnlyWaitersBlockedNext
<1> QED BY <1>1, <1>2 DEF BlockedWait

LEMMA InitServes == Init => Promise!Init
<1> SUFFICES ASSUME Init PROVE Promise!Init
  OBVIOUS
<1>1. cur_tcb = NULL /\ \A m \in MutexId : ~bLock[m]
  BY DEF Init, SchedInit, mutex_init
<1>2. Queues = [m \in MutexId |-> <<>>]
  BY <1>1 DEF Queues
<1> QED BY <1>1, <1>2 DEF Promise!Init

\* A step that leaves the mutexes and their lists alone is a switch to a task that is ready.
LEMMA OtherStepsSwitch ==
    ASSUME FcfsInv, FcfsInv', UNCHANGED <<bLock, pHolding_Tcb>>,
           cur_tcb' # NULL \/ cur_tcb' = cur_tcb,
           \A m \in MutexId :
              bLock[m] => InOrder(sleep_queue', pSleep_queue'[m]) = InOrder(sleep_queue, pSleep_queue[m])
    PROVE  Promise!Switch \/ UNCHANGED <<cur_tcb, Queues>>
<1>1. Queues' = Queues
  BY DEF Queues
<1>2. CASE cur_tcb' = cur_tcb
  BY <1>1, <1>2
<1>3. CASE cur_tcb' # NULL
  <2>1. run_list'[cur_tcb'] = cur_tcb'
    BY <1>3 DEF FcfsInv, SlotsInv
  <2>2. ~Promise!Blocked(cur_tcb', Queues')
    BY <1>3, <2>1, ReadyNotBlockedNext
  <2> QED BY <1>1, <2>2 DEF Promise!Switch
<1> QED BY <1>2, <1>3

LEMMA CallerOfPromise ==
    ASSUME FcfsInv, InTask
    PROVE  Promise!IsTask(cur_tcb)
BY CallerIsReady DEF Promise!IsTask

\* The steps that touch no mutex are switches of the abstract scheduler.
LEMMA EventWaitServes ==
    ASSUME FcfsInv, FcfsInv', NEW d \in Device, event_wait(d)
    PROVE  Promise!Switch \/ UNCHANGED <<cur_tcb, Queues>>
<1>1. UNCHANGED <<bLock, pHolding_Tcb>>
  BY DEF event_wait, mutex_vars
<1>2. cur_tcb' # NULL
  BY DispatchSleep DEF event_wait, dev_wait
<1> QED BY <1>1, <1>2, EventWaitLists, OtherStepsSwitch

LEMMA TaskCreateServes ==
    ASSUME FcfsInv, FcfsInv', NEW n \in 0..(IDLE_PRIO - 1), task_create(n)
    PROVE  Promise!Switch \/ UNCHANGED <<cur_tcb, Queues>>
<1>1. UNCHANGED <<bLock, pHolding_Tcb>>
  BY DEF task_create, mutex_vars
<1>2. cur_tcb' # NULL
  <2>1. IDLE_PRIO \in Prio /\ IDLE_PRIO \in NewSet(n) /\ NULL \notin Prio
    BY IdlePrioAssumption, NullAssumption DEF Prio, NewSet
  <2>2. Ready(run_list') # {} /\ cur_tcb' = highest_prio(run_list')
    BY <2>1 DEF task_create, allocate_tasks, Ready
  <2> QED BY <2>1, <2>2, HighestIsReady
<1>3. \A m \in MutexId : ~bLock[m]
  BY TaskCreateLists
<1> QED BY <1>1, <1>2, <1>3, OtherStepsSwitch

LEMMA IrqServes ==
    ASSUME FcfsInv, FcfsInv', Irq
    PROVE  Promise!Switch \/ UNCHANGED <<cur_tcb, Queues>>
<1>1. UNCHANGED <<bLock, pHolding_Tcb>>
  BY DEF Irq, mutex_vars
<1>2. cur_tcb' # NULL \/ cur_tcb' = cur_tcb
  BY IrqDispatch, LiveRange DEF FcfsInv
<1> QED BY <1>1, <1>2, IrqLists, OtherStepsSwitch

\* Taking a free mutex: the caller is alone in its queue.
LEMMA LockFreeServes ==
    ASSUME FcfsInv, NEW m \in MutexId, LockMutex(m), ~bLock[m]
    PROVE  Promise!Lock(m)
<1>1. /\ InTask /\ bLock' = [bLock EXCEPT ![m] = TRUE]
      /\ pHolding_Tcb' = [pHolding_Tcb EXCEPT ![m] = cur_tcb]
      /\ UNCHANGED <<cur_tcb, sleep_queue, pSleep_queue>>
      /\ bLock \in [MutexId -> BOOLEAN] /\ pHolding_Tcb \in [MutexId -> Tcb \cup {NULL}]
  BY DEF LockMutex, mutex_lock, lock_free, FcfsInv, TypeOK, MutexTypeOK
<1>2. Queues[m] = <<>> /\ InOrder(sleep_queue, pSleep_queue[m]) = <<>>
  <2>1. pSleep_queue[m] = NULL
    BY DEF FcfsInv, HoldersInv
  <2> QED BY <2>1, QueueOfMutex
<1>3. Queues' = [Queues EXCEPT ![m] = Append(Queues[m], cur_tcb)]
  <2>1. Queues'[m] = <<cur_tcb>> \o <<>>
    BY <1>1, <1>2 DEF Queues
  <2>2. Append(Queues[m], cur_tcb) = <<cur_tcb>> \o <<>>
    BY <1>2
  <2>3. \A n \in MutexId \ {m} : Queues'[n] = Queues[n]
    BY <1>1 DEF Queues
  <2>4. /\ Queues = [n \in MutexId |-> Queues[n]]
        /\ Queues' = [n \in MutexId |-> Queues'[n]]
    BY DEF Queues
  <2> HIDE DEF Queues
  <2> QED BY <2>1, <2>2, <2>3, <2>4
<1>4. ~Promise!Asked(cur_tcb, m)
  BY <1>2 DEF Promise!Asked
<1> QED BY <1>1, <1>2, <1>3, <1>4, CallerOfPromise DEF Promise!Lock

\* Asking for a mutex that is held: the caller goes to the end of the queue, and the one
\* that runs next is ready.
LEMMA LockWaitServes ==
    ASSUME FcfsInv, FcfsInv', NEW m \in MutexId, LockMutex(m), bLock[m]
    PROVE  Promise!Lock(m)
<1> DEFINE s == InOrder(sleep_queue, pSleep_queue[m])
           h == pHolding_Tcb[m]
<1>1. /\ InTask /\ h # cur_tcb /\ dispatch_sleep
      /\ UNCHANGED <<bLock, pHolding_Tcb, cur_prio, num_tasks>>
  BY DEF LockMutex, mutex_lock, mutex_lock_result, lock_wait
<1>2. cur_tcb \in Tcb /\ cur_tcb \notin Waiters(m)
  BY <1>1, CallerIsReady
<1>3. s \in Seq(Tcb) /\ On(s) = Waiters(m) /\ Queues[m] = <<h>> \o s
  BY QueueOfMutex
<1>4. InOrder(sleep_queue', pSleep_queue'[m]) = Append(s, cur_tcb)
  BY LockWaitLists
<1>5. Queues'[m] = <<h>> \o Append(s, cur_tcb)
  BY <1>1, <1>4 DEF Queues
<1>6. \A n \in MutexId \ {m} : Queues'[n] = Queues[n]
  BY <1>1, LockWaitLists DEF Queues
<1>7. /\ Queues = [n \in MutexId |-> Queues[n]]
      /\ Queues' = [n \in MutexId |-> Queues'[n]]
  BY DEF Queues
<1> HIDE DEF s, h
<1>8. /\ <<h>> \o s # <<>> /\ Len(<<h>> \o s) = Len(s) + 1 /\ Len(s) \in Nat
      /\ (<<h>> \o s)[1] = h
      /\ \A k \in 2..Len(<<h>> \o s) : (<<h>> \o s)[k] \in On(s)
      /\ Append(<<h>> \o s, cur_tcb) = <<h>> \o Append(s, cur_tcb)
  <2>1. /\ <<h>> \o s # <<>> /\ Len(<<h>> \o s) = Len(s) + 1 /\ Len(s) \in Nat
        /\ (<<h>> \o s)[1] = h
        /\ \A k \in 2..Len(<<h>> \o s) : (<<h>> \o s)[k] \in On(s)
    BY <1>3, HolderAndWaiters
  <2>2. Append(<<h>> \o s, cur_tcb) = <<h>> \o Append(s, cur_tcb)
    BY <1>2, <1>3, AppendBehindHolder
  <2> QED BY <2>1, <2>2
<1>9. Queues' = [Queues EXCEPT ![m] = Append(Queues[m], cur_tcb)]
  BY <1>3, <1>5, <1>6, <1>7, <1>8
<1>10. ~Promise!Asked(cur_tcb, m)
  <2> DEFINE q == <<h>> \o s
  <2>1. q[1] # cur_tcb /\ \A k \in 2..Len(q) : q[k] # cur_tcb
    BY <1>1, <1>2, <1>3, <1>8
  <2>2. \A k \in 1..Len(q) : k = 1 \/ k \in 2..Len(q)
    BY <1>8
  <2> HIDE DEF q
  <2>3. \A k \in 1..Len(q) : q[k] # cur_tcb
    BY <2>1, <2>2
  <2> QED BY <1>3, <2>3 DEF Promise!Asked, q
<1>11. ~Promise!Blocked(cur_tcb', Queues')
  <2>1. cur_tcb' # NULL /\ run_list'[cur_tcb'] = cur_tcb'
    BY <1>1, DispatchSleep
  <2> QED BY <2>1, ReadyNotBlockedNext
<1> QED BY <1>1, <1>3, <1>8, <1>9, <1>10, <1>11, CallerOfPromise DEF Promise!Lock

LEMMA UnlockServes ==
    ASSUME FcfsInv, NEW m \in MutexId, UnlockMutex(m)
    PROVE  Promise!Unlock(m)
<1> DEFINE s == InOrder(sleep_queue, pSleep_queue[m])
<1>1. /\ InTask /\ pHolding_Tcb[m] = cur_tcb /\ cur_tcb' = cur_tcb
      /\ pHolding_Tcb' = [pHolding_Tcb EXCEPT ![m] = pSleep_queue[m]]
      /\ bLock' = [bLock EXCEPT ![m] = (pSleep_queue[m] # NULL)]
      /\ bLock \in [MutexId -> BOOLEAN] /\ pHolding_Tcb \in [MutexId -> Tcb \cup {NULL}]
  BY DEF UnlockMutex, mutex_unlock, mutex_unlock_result, FcfsInv, TypeOK, MutexTypeOK
<1>2. bLock[m]
  BY <1>1, CallerIsReady DEF FcfsInv, HoldersInv
<1>3. s \in Seq(Tcb) /\ Queues[m] = <<cur_tcb>> \o s
  BY <1>1, <1>2, QueueOfMutex
<1>4. Queues[m] # <<>> /\ Head(Queues[m]) = cur_tcb /\ Tail(Queues[m]) = s
  <2> HIDE DEF s
  <2> QED BY <1>3, HolderAndWaiters
<1>5. Queues'[m] = s /\ \A n \in MutexId \ {m} : Queues'[n] = Queues[n]
  <2>1. CASE pSleep_queue[m] = NULL
    <3>1. s = <<>>
      BY <2>1, QueueOfMutex
    <3>2. Queues'[m] = <<>>
      BY <1>1, <2>1 DEF Queues
    <3>3. UNCHANGED <<sleep_queue, pSleep_queue>>
      BY <2>1 DEF UnlockMutex, mutex_unlock
    <3>4. \A n \in MutexId \ {m} : Queues'[n] = Queues[n]
      BY <1>1, <3>3 DEF Queues
    <3> QED BY <3>1, <3>2, <3>4
  <2>2. CASE pSleep_queue[m] # NULL
    <3>1. PICK heir \in Asleep :
              /\ heir = pSleep_queue[m]
              /\ InOrder(sleep_queue, heir) = <<heir>> \o InOrder(sleep_queue', pSleep_queue'[m])
              /\ \A n \in MutexId \ {m} :
                    InOrder(sleep_queue', pSleep_queue'[n]) = InOrder(sleep_queue, pSleep_queue[n])
      BY <2>2, UnlockHeirLists DEF HeirLeaves
    <3>2. bLock'[m] /\ pHolding_Tcb'[m] = heir
      BY <1>1, <2>2, <3>1
    <3>3. Queues'[m] = <<heir>> \o InOrder(sleep_queue', pSleep_queue'[m])
      BY <3>2 DEF Queues
    <3>4. \A n \in MutexId \ {m} : Queues'[n] = Queues[n]
      BY <1>1, <3>1 DEF Queues
    <3> QED BY <3>1, <3>3, <3>4
  <2> QED BY <2>1, <2>2
<1>6. /\ Queues = [n \in MutexId |-> Queues[n]]
      /\ Queues' = [n \in MutexId |-> Queues'[n]]
  BY DEF Queues
<1> HIDE DEF s
<1>7. Queues' = [Queues EXCEPT ![m] = Tail(Queues[m])]
  BY <1>4, <1>5, <1>6
<1> QED BY <1>1, <1>4, <1>7, CallerOfPromise DEF Promise!Unlock

LEMMA StepServes ==
    ASSUME FcfsInv, FcfsInv', [Next]_vars
    PROVE  [Promise!Next]_<<cur_tcb, Queues>>
<1>1. ASSUME Promise!Switch \/ UNCHANGED <<cur_tcb, Queues>>
      PROVE  [Promise!Next]_<<cur_tcb, Queues>>
  BY <1>1 DEF Promise!Next
<1>2. CASE \E n \in 0..(IDLE_PRIO - 1) : task_create(n)
  BY <1>1, <1>2, TaskCreateServes
<1>3. CASE \E d \in Device : event_wait(d)
  BY <1>1, <1>3, EventWaitServes
<1>4. CASE CreateMutex
  <2>1. UNCHANGED <<cur_tcb, Queues>>
    BY <1>4 DEF CreateMutex, mutex_create, lock_vars, sched_vars, Queues
  <2> QED BY <1>1, <2>1
<1>5. CASE \E m \in MutexId : LockMutex(m) \/ UnlockMutex(m)
  BY <1>5, LockFreeServes, LockWaitServes, UnlockServes DEF Promise!Next
<1>6. CASE Irq
  BY <1>1, <1>6, IrqServes
<1>7. CASE UNCHANGED vars
  <2>1. UNCHANGED <<cur_tcb, Queues>>
    BY <1>7 DEF vars, sched_vars, mutex_vars, Queues
  <2> QED BY <1>1, <2>1
<1> QED BY <1>2, <1>3, <1>4, <1>5, <1>6, <1>7 DEF Next

\* The mutexes of the part1 kernel are first come, first served, and no task runs while it
\* waits for one (mutex.c:71-81, 108-115): the lists linked through the control blocks,
\* the slots of the run queue and the lock bits never show.
THEOREM FirstComeFirstServed == Spec => ServesInOrder
<1>1. Init => Promise!Init
  BY InitServes
<1>2. FcfsInv /\ FcfsInv' /\ [Next]_vars => [Promise!Next]_<<cur_tcb, Queues>>
  BY StepServes
<1> QED BY <1>1, <1>2, FcfsInvariance, PTL DEF Spec, ServesInOrder, Promise!Spec
=============================================================================
