------------------------------ MODULE LibProof ------------------------------
(***************************************************************************)
(* Theorems about the code that works on its arguments alone: the string   *)
(* functions and rand of the C library, valid_addr of the kernel; and      *)
(* about its printf.                                                       *)
(***************************************************************************)
EXTENDS LibString, LibStdio, LibRand, MemCheck, WordArith, WellFoundedInduction, SequenceTheorems,
        TLAPS

-----------------------------------------------------------------------------
(* memmove moves a region as if all of it were read before any of it is    *)
(* written, for every memory size and every pair of regions.               *)

\* The memory is a function on the addresses, so that an update shows.
MemIsFunction ==
    /\ mem = [a \in Addr |-> mem[a]]
    /\ before = [a \in Addr |-> before[a]]

\* The destination bytes the loop has already written.
Written == IF Upwards THEN dest..(dest + i - 1) ELSE (dest + i)..(dest + count - 1)

RegionsFit ==
    /\ dest \in Addr /\ src \in Addr /\ count \in 0..MEM /\ i \in 0..count
    /\ Fits(dest, count) /\ Fits(src, count)

\* What is written is what the source held; the rest is as it was.
MovedSoFar ==
    \A a \in Addr : mem[a] = IF a \in Written THEN before[a - dest + src] ELSE before[a]

MoveInv ==
    /\ MemIsFunction
    /\ ~moving => mem = before
    /\ moving => RegionsFit /\ MovedSoFar

LEMMA InitMove == Init => MoveInv
BY DEF Init, MoveInv, MemIsFunction

LEMMA LeaveMove == ASSUME NEW m, Leave(m) PROVE MoveInv'
BY DEF Leave, MoveInv, MemIsFunction

LEMMA StartMove ==
    ASSUME MoveInv, NEW d \in Addr, NEW s \in Addr, NEW n \in 0..MEM, memmove(d, s, n)
    PROVE  MoveInv'
<1>1. MemIsFunction' /\ ~moving /\ moving' /\ mem' = mem /\ before' = before /\ mem = before
  BY DEF MoveInv, memmove, MemIsFunction
<1>2. RegionsFit'
  BY MemAssumption DEF memmove, RegionsFit, Fits, Addr, Upwards
<1>3. Written' = {}
  BY <1>2 DEF memmove, Written, Upwards, RegionsFit, Addr
<1>4. MovedSoFar'
  BY <1>1, <1>3 DEF MovedSoFar
<1> QED BY <1>1, <1>2, <1>4 DEF MoveInv

LEMMA UpMove == ASSUME MoveInv, move_up PROVE MoveInv'
<1> USE MemAssumption
<1>1. /\ moving /\ moving' /\ Upwards /\ i # count /\ i' = i + 1
      /\ dest' = dest /\ src' = src /\ count' = count /\ before' = before
      /\ mem' = [mem EXCEPT ![dest + i] = mem[src + i]]
  BY DEF move_up
<1>2. MemIsFunction /\ RegionsFit /\ MovedSoFar
  BY <1>1 DEF MoveInv
<1>3. dest + i \in Addr /\ src + i \in Addr /\ src + i \notin Written /\ dest < src /\ Upwards'
  BY <1>1, <1>2 DEF RegionsFit, Fits, Addr, Written, Upwards
<1>4. mem[src + i] = before[src + i]
  BY <1>2, <1>3 DEF MovedSoFar
<1>5. MemIsFunction'
  BY <1>1, <1>2 DEF MemIsFunction
<1>6. RegionsFit'
  BY <1>1, <1>2 DEF RegionsFit, Fits, Addr
<1>7. \A a \in Addr : mem'[a] = IF a = dest + i THEN before[src + i] ELSE mem[a]
  BY <1>1, <1>2, <1>3, <1>4 DEF MemIsFunction
<1>8. \A a \in Addr : a \in Written' <=> a \in Written \/ a = dest + i
  BY <1>1, <1>2, <1>3 DEF Written, RegionsFit, Addr
<1>9. MovedSoFar'
  <2> SUFFICES ASSUME NEW a \in Addr
               PROVE  mem'[a] = IF a \in Written' THEN before[a - dest + src] ELSE before[a]
    BY <1>1 DEF MovedSoFar
  <2>1. CASE a = dest + i
    <3>1. a - dest + src = src + i
      BY <2>1, <1>2 DEF RegionsFit, Addr
    <3> QED BY <2>1, <3>1, <1>7, <1>8
  <2>2. CASE a # dest + i
    BY <2>2, <1>2, <1>7, <1>8 DEF MovedSoFar
  <2> QED BY <2>1, <2>2
<1> QED BY <1>1, <1>5, <1>6, <1>9 DEF MoveInv

LEMMA DownMove == ASSUME MoveInv, move_down PROVE MoveInv'
<1> USE MemAssumption
<1>1. /\ moving /\ moving' /\ ~Upwards /\ i # 0 /\ i' = i - 1
      /\ dest' = dest /\ src' = src /\ count' = count /\ before' = before
      /\ mem' = [mem EXCEPT ![dest + i - 1] = mem[src + i - 1]]
  BY DEF move_down
<1>2. MemIsFunction /\ RegionsFit /\ MovedSoFar
  BY <1>1 DEF MoveInv
<1>3. /\ dest + i - 1 \in Addr /\ src + i - 1 \in Addr /\ src + i - 1 \notin Written
      /\ dest >= src /\ ~Upwards'
  BY <1>1, <1>2 DEF RegionsFit, Fits, Addr, Written, Upwards
<1>4. mem[src + i - 1] = before[src + i - 1]
  BY <1>2, <1>3 DEF MovedSoFar
<1>5. MemIsFunction'
  BY <1>1, <1>2 DEF MemIsFunction
<1>6. RegionsFit'
  BY <1>1, <1>2 DEF RegionsFit, Fits, Addr
<1>7. \A a \in Addr : mem'[a] = IF a = dest + i - 1 THEN before[src + i - 1] ELSE mem[a]
  BY <1>1, <1>2, <1>3, <1>4 DEF MemIsFunction
<1>8. \A a \in Addr : a \in Written' <=> a \in Written \/ a = dest + i - 1
  BY <1>1, <1>2, <1>3 DEF Written, RegionsFit, Addr
<1>9. MovedSoFar'
  <2> SUFFICES ASSUME NEW a \in Addr
               PROVE  mem'[a] = IF a \in Written' THEN before[a - dest + src] ELSE before[a]
    BY <1>1 DEF MovedSoFar
  <2>1. CASE a = dest + i - 1
    <3>1. a - dest + src = src + i - 1
      BY <2>1, <1>2 DEF RegionsFit, Addr
    <3> QED BY <2>1, <3>1, <1>7, <1>8
  <2>2. CASE a # dest + i - 1
    BY <2>2, <1>2, <1>7, <1>8 DEF MovedSoFar
  <2> QED BY <2>1, <2>2
<1> QED BY <1>1, <1>5, <1>6, <1>9 DEF MoveInv

LEMMA StepMove == ASSUME MoveInv, [Next]_vars PROVE MoveInv'
<1>1. CASE StrCpy
  BY <1>1, LeaveMove DEF StrCpy
<1>2. CASE StrCat
  BY <1>2, LeaveMove DEF StrCat
<1>3. CASE StrNCat
  BY <1>3, LeaveMove DEF StrNCat
<1>4. CASE StrNCpy
  BY <1>4, LeaveMove DEF StrNCpy
<1>5. CASE MemSet
  BY <1>5, LeaveMove DEF MemSet
<1>6. CASE \E d, s \in Addr, n \in 0..MEM : memmove(d, s, n)
  BY <1>6, StartMove
<1>7. CASE move_up
  BY <1>7, UpMove
<1>8. CASE move_down
  BY <1>8, DownMove
<1>9. CASE move_return
  BY <1>9 DEF move_return, MoveInv, MemIsFunction
<1>10. CASE UNCHANGED vars
  BY <1>10 DEF vars, MoveInv, MemIsFunction, RegionsFit, MovedSoFar, Written, Upwards
<1> QED BY <1>1, <1>2, <1>3, <1>4, <1>5, <1>6, <1>7, <1>8, <1>9, <1>10 DEF Next

\* When memmove returns, the destination holds what the source held, whichever
\* way the regions overlap (memmove.c:18-23).
THEOREM MoveCorrect == Spec => []MoveIsSimultaneous
<1>1. MoveInv => MoveIsSimultaneous
  <2> SUFFICES ASSUME MoveInv, Moved
               PROVE  mem = [a \in Addr |-> IF a \in dest..(dest + count - 1)
                                              THEN before[a - dest + src] ELSE before[a]]
    BY DEF MoveIsSimultaneous
  <2>1. MemIsFunction /\ RegionsFit /\ MovedSoFar
    BY DEF Moved, MoveInv
  <2>2. Written = dest..(dest + count - 1)
    BY <2>1 DEF Moved, Written, RegionsFit, Addr
  <2> QED BY <2>1, <2>2 DEF MovedSoFar, MemIsFunction
<1> QED BY <1>1, InitMove, StepMove, PTL DEF Spec

-----------------------------------------------------------------------------
(* The string functions are loops: each is a recursive function of the     *)
(* place it is at.  That such a function exists is proved by giving one    *)
(* (SearchExists, StrrchrLoops, CopyUpCopies), and what it returns by      *)
(* going back from the place where the loop stops, the first of its kind   *)
(* (SearchFinds): no induction but a least element of a set of numbers.    *)

\* A set of natural numbers that is not empty has a least element.
LEMMA LeastNat ==
    ASSUME NEW S, S \subseteq Nat, S # {}
    PROVE  \E k \in S : \A j \in S : k <= j
<1>1. PICK k \in S : \A j \in S : ~(<<j, k>> \in OpToRel(<, Nat))
  BY WFMin, NatLessThanWellFounded
<1>2. ASSUME NEW j \in S PROVE k <= j
  <2>1. j \in Nat /\ k \in Nat
    OBVIOUS
  <2>2. ~(j < k)
    BY <1>1, <2>1 DEF OpToRel
  <2> QED BY <2>1, <2>2
<1> QED BY <1>2

\* g[p] goes up from p to the first place of Z and is what v says of it.
IsSearch(g, Z, v) == g = [p \in Nat |-> IF p \in Z THEN v[p] ELSE g[p + 1]]

\* Such a loop has a solution.
LEMMA SearchExists ==
    ASSUME NEW Z, Z \subseteq Nat, NEW v
    PROVE  \E g : IsSearch(g, Z, v)
<1> DEFINE Behind(p) == {z \in Z : z >= p}
           First1(S) == CHOOSE z \in S : \A y \in S : z <= y
           g == [p \in Nat |-> IF Behind(p) # {} THEN v[First1(Behind(p))] ELSE 0]
<1>1. \A p \in Nat : Behind(p) \subseteq Nat
  OBVIOUS
<1>2. ASSUME NEW p \in Z PROVE p \in Behind(p) /\ First1(Behind(p)) = p
  <2>1. p \in Behind(p) /\ \A y \in Behind(p) : p <= y
    BY <1>2
  <2>2. First1(Behind(p)) \in Behind(p) /\ \A y \in Behind(p) : First1(Behind(p)) <= y
    BY <2>1
  <2>3. First1(Behind(p)) \in Nat /\ p \in Nat /\ First1(Behind(p)) <= p /\ p <= First1(Behind(p))
    BY <2>1, <2>2
  <2> HIDE DEF First1, Behind
  <2> QED BY <2>1, <2>3
<1>3. ASSUME NEW p \in Nat, p \notin Z PROVE Behind(p) = Behind(p + 1)
  <2>1. \A z \in Z : z >= p <=> z >= p + 1
    BY <1>3
  <2> QED BY <2>1, Zenon
<1> HIDE DEF Behind, First1
<1>4. ASSUME NEW p \in Nat PROVE g[p] = IF p \in Z THEN v[p] ELSE g[p + 1]
  <2>1. g[p] = IF Behind(p) # {} THEN v[First1(Behind(p))] ELSE 0
    OBVIOUS
  <2>2. p + 1 \in Nat
    OBVIOUS
  <2>3. g[p + 1] = IF Behind(p + 1) # {} THEN v[First1(Behind(p + 1))] ELSE 0
    BY <2>2, Zenon
  <2> HIDE DEF g
  <2>4. CASE p \in Z
    BY <1>2, <2>1, <2>4
  <2>5. CASE p \notin Z
    BY <1>3, <2>1, <2>3, <2>5
  <2> QED BY <2>4, <2>5
<1>5. g = [p \in Nat |-> g[p]]
  OBVIOUS
<1>6. IsSearch(g, Z, v)
  <2> HIDE DEF g
  <2> QED BY <1>4, <1>5 DEF IsSearch
<1> QED BY <1>6, Zenon

\* Such a loop returns what v says of the first place.
LEMMA SearchFinds ==
    ASSUME NEW Z, NEW v, NEW f, IsSearch(f, Z, v),
           NEW p \in Nat, NEW z \in Nat, z \in Z, z >= p, \A q \in p..(z - 1) : q \notin Z
    PROVE  f[p] = v[z]
<1>0. \A q \in Nat : f[q] = IF q \in Z THEN v[q] ELSE f[q + 1]
  <2> SUFFICES ASSUME NEW q \in Nat PROVE f[q] = IF q \in Z THEN v[q] ELSE f[q + 1]
    OBVIOUS
  <2>1. f = [k \in Nat |-> IF k \in Z THEN v[k] ELSE f[k + 1]]
    BY DEF IsSearch
  <2> QED BY <2>1
<1> DEFINE D == {d \in 0..(z - p) : f[z - d] # v[z]}
<1>1. SUFFICES ASSUME D # {} PROVE FALSE
  <2>1. z - p \in 0..(z - p) /\ z - (z - p) = p
    OBVIOUS
  <2>2. z - p \notin D
    BY <1>1
  <2> QED BY <2>1, <2>2
<1>2. PICK d \in D : \A e \in D : d <= e
  <2>1. D \subseteq Nat
    OBVIOUS
  <2> HIDE DEF D
  <2> QED BY <1>1, <2>1, LeastNat
<1>3. d \in Nat /\ d <= z - p /\ f[z - d] # v[z] /\ z - d \in Nat
  OBVIOUS
<1>4. d # 0
  <2>1. f[z] = v[z] /\ z - 0 = z
    BY <1>0
  <2> QED BY <1>3, <2>1
<1>5. z - d \in p..(z - 1)
  BY <1>3, <1>4
<1>6. f[z - d] = f[(z - d) + 1]
  BY <1>0, <1>3, <1>5
<1>7. (z - d) + 1 = z - (d - 1) /\ d - 1 \in 0..(z - p) /\ ~(d <= d - 1)
  BY <1>3, <1>4
<1>8. d - 1 \in D
  BY <1>3, <1>6, <1>7
<1> QED BY <1>2, <1>7, <1>8

\* e is where the string at s ends.
Ends(m, s, e) == e \in Nat /\ e >= s /\ m[e] = 0 /\ \A q \in s..(e - 1) : m[q] # 0

LEMMA StrlenFinds ==
    ASSUME NEW m, NEW s \in Nat, NEW e, Ends(m, s, e)
    PROVE  strlen(m, s) = e - s
<1> DEFINE Loop(g) == g = [p \in Nat |-> IF m[p] = 0 THEN p ELSE g[p + 1]]
           f == CHOOSE g : Loop(g)
           Z == {p \in Nat : m[p] = 0}
           v == [p \in Nat |-> p]
<1>1. strlen(m, s) = f[s] - s
  BY DEF strlen
<1>2. \A g : Loop(g) <=> IsSearch(g, Z, v)
  BY DEF IsSearch
<1>3. e \in Nat /\ e \in Z /\ e >= s /\ v[e] = e /\ \A q \in s..(e - 1) : q \notin Z
  BY DEF Ends
<1>4. Z \subseteq Nat
  OBVIOUS
<1> HIDE DEF Loop, Z, v
<1>5. Loop(f)
  BY <1>2, <1>4, SearchExists, Zenon
<1> HIDE DEF f
<1>6. IsSearch(f, Z, v)
  BY <1>2, <1>5
<1>7. f[s] = e
  BY <1>3, <1>6, SearchFinds
<1> QED BY <1>1, <1>7

\* A loop over places that may stop twice for one reason.
LEMMA StrchrFinds ==
    ASSUME NEW m, NEW s \in Nat, NEW c, NEW e \in Nat, e >= s, m[e] = c \/ m[e] = 0,
           \A q \in s..(e - 1) : m[q] # c /\ m[q] # 0
    PROVE  strchr(m, s, c) = IF m[e] = c THEN e ELSE 0
<1> DEFINE Loop(g) == g = [p \in Nat |-> IF m[p] = c THEN p ELSE IF m[p] = 0 THEN 0 ELSE g[p + 1]]
           f == CHOOSE g : Loop(g)
           Z == {p \in Nat : m[p] = c \/ m[p] = 0}
           v == [p \in Nat |-> IF m[p] = c THEN p ELSE 0]
<1>1. strchr(m, s, c) = f[s]
  BY DEF strchr
<1>2. \A g : Loop(g) <=> IsSearch(g, Z, v)
  BY DEF IsSearch
<1>3. e \in Z /\ v[e] = (IF m[e] = c THEN e ELSE 0) /\ \A q \in s..(e - 1) : q \notin Z
  OBVIOUS
<1>4. Z \subseteq Nat
  OBVIOUS
<1> HIDE DEF Loop, Z, v
<1>5. Loop(f)
  BY <1>2, <1>4, SearchExists, Zenon
<1> HIDE DEF f
<1>6. IsSearch(f, Z, v)
  BY <1>2, <1>5
<1>7. f[s] = v[e]
  BY <1>3, <1>6, SearchFinds
<1> QED BY <1>1, <1>3, <1>7

\* strcmp stops at the k-th characters.
StrcmpStops(m, a, b, k) ==
    /\ m[a + k] = 0 \/ m[b + k] = 0 \/ m[a + k] # m[b + k]
    /\ \A j \in 0..(k - 1) : m[a + j] # 0 /\ m[b + j] # 0 /\ m[a + j] = m[b + j]

LEMMA StrcmpFinds ==
    ASSUME NEW m, NEW a \in Nat, NEW b \in Nat, NEW k \in Nat, StrcmpStops(m, a, b, k)
    PROVE  strcmp(m, a, b) = m[a + k] - m[b + k]
<1> DEFINE Loop(g) == g = [j \in Nat |-> LET x == m[a + j]  y == m[b + j]
                                         IN  IF x # 0 /\ y # 0 /\ x = y THEN g[j + 1] ELSE x - y]
           f == CHOOSE g : Loop(g)
           Z == {j \in Nat : ~(m[a + j] # 0 /\ m[b + j] # 0 /\ m[a + j] = m[b + j])}
           v == [j \in Nat |-> m[a + j] - m[b + j]]
<1>1. strcmp(m, a, b) = f[0]
  BY DEF strcmp
<1>2. \A g : Loop(g) <=> IsSearch(g, Z, v)
  BY DEF IsSearch
<1>3. k \in Z /\ v[k] = m[a + k] - m[b + k] /\ (\A q \in 0..(k - 1) : q \notin Z) /\ k >= 0 /\ 0 \in Nat
  BY DEF StrcmpStops
<1>4. Z \subseteq Nat
  OBVIOUS
<1> HIDE DEF Loop, Z, v
<1>5. Loop(f)
  BY <1>2, <1>4, SearchExists, Zenon
<1> HIDE DEF f
<1>6. IsSearch(f, Z, v)
  BY <1>2, <1>5
<1>7. f[0] = v[k]
  BY <1>3, <1>6, SearchFinds
<1> QED BY <1>1, <1>3, <1>7

\* strncmp and memcmp stop at the k-th characters.
StrncmpStops(m, a, b, n, k) ==
    /\ k \in 0..n
    /\ k = n \/ m[a + k] # m[b + k] \/ m[a + k] = 0
    /\ \A j \in 0..(k - 1) : m[a + j] # 0 /\ m[a + j] = m[b + j]
MemcmpStops(m, a, b, n, k) ==
    /\ k \in 0..n
    /\ k = n \/ m[a + k] # m[b + k]
    /\ \A j \in 0..(k - 1) : m[a + j] = m[b + j]

LEMMA StrncmpFinds ==
    ASSUME NEW m, NEW a \in Nat, NEW b \in Nat, NEW n \in Nat, NEW k,
           StrncmpStops(m, a, b, n, k)
    PROVE  strncmp(m, a, b, n) = IF k = n \/ m[a + k] = m[b + k] THEN 0 ELSE m[a + k] - m[b + k]
<1> DEFINE Loop(g) == g = [j \in Nat |-> LET x == m[a + j]  y == m[b + j]
                                         IN  IF j = n THEN 0
                                             ELSE IF x # y THEN x - y
                                             ELSE IF x = 0 THEN 0 ELSE g[j + 1]]
           f == CHOOSE g : Loop(g)
           Z == {j \in Nat : j = n \/ m[a + j] # m[b + j] \/ m[a + j] = 0}
           v == [j \in Nat |-> IF j = n \/ m[a + j] = m[b + j] THEN 0 ELSE m[a + j] - m[b + j]]
<1>1. strncmp(m, a, b, n) = f[0]
  BY DEF strncmp
<1>2. \A g : Loop(g) <=> IsSearch(g, Z, v)
  <2> SUFFICES ASSUME NEW g PROVE Loop(g) <=> IsSearch(g, Z, v)
    OBVIOUS
  <2>1. \A j \in Nat :
           (LET x == m[a + j]  y == m[b + j]
            IN  IF j = n THEN 0 ELSE IF x # y THEN x - y ELSE IF x = 0 THEN 0 ELSE g[j + 1])
           = IF j \in Z THEN v[j] ELSE g[j + 1]
    OBVIOUS
  <2> HIDE DEF Z, v
  <2> QED BY <2>1 DEF IsSearch
<1>3. /\ k \in Z /\ k \in Nat /\ (\A q \in 0..(k - 1) : q \notin Z) /\ k >= 0 /\ 0 \in Nat
      /\ v[k] = IF k = n \/ m[a + k] = m[b + k] THEN 0 ELSE m[a + k] - m[b + k]
  BY DEF StrncmpStops
<1>4. Z \subseteq Nat
  OBVIOUS
<1> HIDE DEF Loop, Z, v
<1>5. Loop(f)
  BY <1>2, <1>4, SearchExists, Zenon
<1> HIDE DEF f
<1>6. IsSearch(f, Z, v)
  BY <1>2, <1>5
<1>7. f[0] = v[k]
  BY <1>3, <1>6, SearchFinds
<1> QED BY <1>1, <1>3, <1>7

LEMMA MemcmpFinds ==
    ASSUME NEW m, NEW a \in Nat, NEW b \in Nat, NEW n \in Nat, NEW k,
           MemcmpStops(m, a, b, n, k)
    PROVE  memcmp(m, a, b, n) = IF k = n THEN 0 ELSE m[a + k] - m[b + k]
<1> DEFINE Loop(g) == g = [j \in Nat |-> IF j = n THEN 0
                                         ELSE IF m[a + j] = m[b + j] THEN g[j + 1]
                                         ELSE m[a + j] - m[b + j]]
           f == CHOOSE g : Loop(g)
           Z == {j \in Nat : j = n \/ m[a + j] # m[b + j]}
           v == [j \in Nat |-> IF j = n THEN 0 ELSE m[a + j] - m[b + j]]
<1>1. memcmp(m, a, b, n) = f[0]
  BY DEF memcmp
<1>2. \A g : Loop(g) <=> IsSearch(g, Z, v)
  <2> SUFFICES ASSUME NEW g PROVE Loop(g) <=> IsSearch(g, Z, v)
    OBVIOUS
  <2>1. \A j \in Nat :
           (IF j = n THEN 0 ELSE IF m[a + j] = m[b + j] THEN g[j + 1] ELSE m[a + j] - m[b + j])
           = IF j \in Z THEN v[j] ELSE g[j + 1]
    OBVIOUS
  <2> HIDE DEF Z, v
  <2> QED BY <2>1 DEF IsSearch
<1>3. /\ k \in Z /\ k \in Nat /\ (\A q \in 0..(k - 1) : q \notin Z) /\ k >= 0 /\ 0 \in Nat
      /\ v[k] = IF k = n THEN 0 ELSE m[a + k] - m[b + k]
  BY DEF MemcmpStops
<1>4. Z \subseteq Nat
  OBVIOUS
<1> HIDE DEF Loop, Z, v
<1>5. Loop(f)
  BY <1>2, <1>4, SearchExists, Zenon
<1> HIDE DEF f
<1>6. IsSearch(f, Z, v)
  BY <1>2, <1>5
<1>7. f[0] = v[k]
  BY <1>3, <1>6, SearchFinds
<1> QED BY <1>1, <1>3, <1>7

\* strcspn's and strpbrk's scan, and strspn's.
LEMMA ScanToSet ==
    ASSUME NEW m, NEW s \in Nat, NEW t, NEW e \in Nat, e >= s, m[e] = 0 \/ In(m, t, m[e]),
           \A q \in s..(e - 1) : m[q] # 0 /\ ~In(m, t, m[q])
    PROVE  scan_until(m, s, LAMBDA c : c = 0 \/ In(m, t, c)) = e
<1> DEFINE Loop(g) == g = [p \in Nat |-> IF m[p] = 0 \/ In(m, t, m[p]) THEN p ELSE g[p + 1]]
           f == CHOOSE g : Loop(g)
           Z == {p \in Nat : m[p] = 0 \/ In(m, t, m[p])}
           v == [p \in Nat |-> p]
<1>1. scan_until(m, s, LAMBDA c : c = 0 \/ In(m, t, c)) = f[s]
  BY DEF scan_until
<1>2. \A g : Loop(g) <=> IsSearch(g, Z, v)
  BY DEF IsSearch
<1>3. e \in Z /\ v[e] = e /\ \A q \in s..(e - 1) : q \notin Z
  OBVIOUS
<1>4. Z \subseteq Nat
  OBVIOUS
<1> HIDE DEF Loop, Z, v
<1>5. Loop(f)
  BY <1>2, <1>4, SearchExists, Zenon
<1> HIDE DEF f
<1>6. IsSearch(f, Z, v)
  BY <1>2, <1>5
<1>7. f[s] = v[e]
  BY <1>3, <1>6, SearchFinds
<1> QED BY <1>1, <1>3, <1>7

\* The characters from s on are in the set up to e.
SpanEnds(m, s, t, e) ==
    e \in Nat /\ e >= s /\ ~In(m, t, m[e]) /\ \A q \in s..(e - 1) : In(m, t, m[q])

LEMMA StrspnFinds ==
    ASSUME NEW m, NEW s \in Nat, NEW t, NEW e, SpanEnds(m, s, t, e)
    PROVE  strspn(m, s, t) = e - s
<1> DEFINE Loop(g) == g = [p \in Nat |-> IF ~In(m, t, m[p]) THEN p ELSE g[p + 1]]
           f == CHOOSE g : Loop(g)
           Z == {p \in Nat : ~In(m, t, m[p])}
           v == [p \in Nat |-> p]
<1>1. strspn(m, s, t) = f[s] - s
  BY DEF strspn, scan_until
<1>2. \A g : Loop(g) <=> IsSearch(g, Z, v)
  BY DEF IsSearch
<1>3. e \in Nat /\ e >= s /\ e \in Z /\ v[e] = e /\ \A q \in s..(e - 1) : q \notin Z
  BY DEF SpanEnds
<1>4. Z \subseteq Nat
  OBVIOUS
<1> HIDE DEF Loop, Z, v
<1>5. Loop(f)
  BY <1>2, <1>4, SearchExists, Zenon
<1> HIDE DEF f
<1>6. IsSearch(f, Z, v)
  BY <1>2, <1>5
<1>7. f[s] = v[e]
  BY <1>3, <1>6, SearchFinds
<1> QED BY <1>1, <1>3, <1>7

-----------------------------------------------------------------------------
\* The end of a string in the memory.
LEMMA EndOfString ==
    ASSUME NEW m, NEW s \in Nat, IsString(m, s)
    PROVE  EndOf(m, s) \in s..MEM /\ Ends(m, s, EndOf(m, s))
<1> DEFINE Z == {p \in s..MEM : m[p] = 0}
           End(p) == m[p] = 0 /\ \A q \in s..(p - 1) : m[q] # 0
<1>1. Z # {} /\ Z \subseteq Nat
  BY MemAssumption DEF IsString
<1>2. PICK p \in Z : \A q \in Z : p <= q
  <2> HIDE DEF Z
  <2> QED BY <1>1, LeastNat
<1>3. p \in s..MEM /\ End(p)
  BY <1>2, MemAssumption
<1>4. EndOf(m, s) = CHOOSE q \in s..MEM : End(q)
  BY DEF EndOf
<1>5. EndOf(m, s) \in s..MEM /\ End(EndOf(m, s))
  <2> HIDE DEF End
  <2> QED BY <1>3, <1>4
<1> QED BY <1>5, MemAssumption DEF Ends

\* No string ends twice.
LEMMA EndsOnce ==
    ASSUME NEW m, NEW s \in Nat, NEW d, NEW e, Ends(m, s, d), Ends(m, s, e)
    PROVE  d = e
BY DEF Ends

LEMMA FirstIs ==
    ASSUME NEW S, S \subseteq Nat, NEW x \in S, \A y \in S : x <= y
    PROVE  First(S) = x
<1>1. First(S) = CHOOSE p \in S : \A q \in S : p <= q
  BY DEF First
<1>2. First(S) \in S /\ \A q \in S : First(S) <= q
  BY <1>1
<1>3. First(S) <= x /\ x <= First(S) /\ x \in Nat /\ First(S) \in Nat
  BY <1>2
<1> QED BY <1>3

\* What First finds of a set that is not empty.
LEMMA FirstOf ==
    ASSUME NEW S, S \subseteq Nat, S # {}
    PROVE  First(S) \in S /\ \A y \in S : First(S) <= y
<1>1. PICK x \in S : \A y \in S : x <= y
  BY LeastNat
<1> QED BY <1>1, FirstIs

LEMMA LastIs ==
    ASSUME NEW S, S \subseteq Nat, NEW x \in S, \A y \in S : x >= y
    PROVE  Last(S) = x
<1>1. Last(S) = CHOOSE p \in S : \A q \in S : p >= q
  BY DEF Last
<1>2. Last(S) \in S /\ \A q \in S : Last(S) >= q
  BY <1>1
<1>3. Last(S) >= x /\ x >= Last(S) /\ x \in Nat /\ Last(S) \in Nat
  BY <1>2
<1> QED BY <1>3

\* A bounded set has a last element.
LEMMA LastOf ==
    ASSUME NEW S, S \subseteq Nat, S # {}, NEW n \in Nat, \A y \in S : y <= n
    PROVE  Last(S) \in S /\ \A y \in S : Last(S) >= y
<1> DEFINE D == {n - y : y \in S}
<1>1. D \subseteq Nat /\ D # {}
  <2>1. \A y \in S : n - y \in Nat
    OBVIOUS
  <2>2. D \subseteq Nat
    BY <2>1
  <2>3. PICK y \in S : TRUE
    OBVIOUS
  <2>4. n - y \in D
    OBVIOUS
  <2> QED BY <2>2, <2>4
<1>2. PICK d \in D : \A c \in D : d <= c
  <2> HIDE DEF D
  <2> QED BY <1>1, LeastNat
<1>3. PICK x \in S : d = n - x
  OBVIOUS
<1>4. \A y \in S : x >= y
  <2> SUFFICES ASSUME NEW y \in S PROVE x >= y
    OBVIOUS
  <2>1. n - y \in D
    OBVIOUS
  <2>2. n - x <= n - y
    BY <1>2, <1>3, <2>1
  <2> QED BY <2>2
<1> QED BY <1>4, LastIs

\* The set of the characters of a text is what In asks of.
LEMMA InText ==
    ASSUME NEW m, NEW t \in Nat \ {0}, IsString(m, t), NEW c
    PROVE  In(m, t, c) <=> c \in {m[p] : p \in Places(m, t)}
<1> DEFINE e == EndOf(m, t)
           Z == {p \in t..e : m[p] = c \/ m[p] = 0}
<1>1. e \in t..MEM /\ e \in Nat /\ e >= t /\ m[e] = 0 /\ \A q \in t..(e - 1) : m[q] # 0
  BY EndOfString DEF Ends
<1> HIDE DEF e
<1>2. Z # {} /\ Z \subseteq Nat
  BY <1>1
<1>3. PICK p \in Z : \A q \in Z : p <= q
  <2> HIDE DEF Z
  <2> QED BY <1>2, LeastNat
<1>4. p \in t..e /\ p \in Nat /\ p >= t /\ (m[p] = c \/ m[p] = 0)
  BY <1>3
<1>5. \A q \in t..(p - 1) : m[q] # c /\ m[q] # 0
  <2> SUFFICES ASSUME NEW q \in t..(p - 1), q \in Z PROVE FALSE
    BY <1>1, <1>4
  <2>1. p <= q
    BY <1>3
  <2> QED BY <1>4, <2>1
<1>6. strchr(m, t, c) = IF m[p] = c THEN p ELSE 0
  BY <1>4, <1>5, StrchrFinds
<1>7. Places(m, t) = t..(e - 1)
  BY DEF Places, e
<1>8. ASSUME In(m, t, c) PROVE c \in {m[q] : q \in Places(m, t)}
  <2>1. c # 0 /\ m[p] = c
    BY <1>6, <1>8 DEF In
  <2>2. p \in t..(e - 1)
    BY <1>1, <1>4, <2>1
  <2> QED BY <1>7, <2>1, <2>2
<1>9. ASSUME NEW q \in t..(e - 1), c = m[q] PROVE In(m, t, c)
  <2>1. c # 0 /\ q \in Z
    BY <1>1, <1>9
  <2>2. p <= q /\ p \in t..(e - 1)
    <3>1. p <= q
      BY <1>3, <2>1
    <3> QED BY <1>1, <1>4, <3>1
  <2>3. m[p] = c
    BY <1>1, <1>4, <2>2
  <2>4. p # 0
    BY <1>4
  <2> QED BY <1>6, <2>1, <2>3, <2>4 DEF In
<1> QED BY <1>7, <1>8, <1>9

-----------------------------------------------------------------------------
\* strrchr's loop: what it is at a place and with a character saved.
HitsBehind(m, c, p) == {q \in Nat : q >= p /\ m[q] = c /\ \A r \in p..q : m[r] # 0}
LastHit(m, c, p, save) ==
    IF \E e \in Nat : e >= p /\ m[e] = 0
      THEN IF HitsBehind(m, c, p) = {} THEN save ELSE Last(HitsBehind(m, c, p))
      ELSE 0
StrrchrLoop(g, m, c) ==
    g = [x \in Nat \X Nat |->
           IF m[x[1]] = 0 THEN x[2] ELSE g[<<x[1] + 1, IF m[x[1]] = c THEN x[1] ELSE x[2]>>]]

\* A step of the loop leaves what it will answer as it was.
LEMMA LastHitSteps ==
    ASSUME NEW m, NEW c, NEW p \in Nat, NEW save \in Nat
    PROVE  LastHit(m, c, p, save) =
              IF m[p] = 0 THEN save
              ELSE LastHit(m, c, p + 1, IF m[p] = c THEN p ELSE save)
<1> DEFINE H(q) == HitsBehind(m, c, q)
           N(q) == \E e \in Nat : e >= q /\ m[e] = 0
           kept == IF m[p] = c THEN p ELSE save
<1>1. CASE m[p] = 0
  <2>1. N(p)
    BY <1>1
  <2>2. H(p) = {}
    <3> SUFFICES ASSUME NEW q \in H(p) PROVE FALSE
      OBVIOUS
    <3>1. q \in Nat /\ q >= p /\ \A r \in p..q : m[r] # 0
      BY DEF HitsBehind
    <3>2. p \in p..q
      BY <3>1
    <3> QED BY <1>1, <3>1, <3>2
  <2> QED BY <1>1, <2>1, <2>2 DEF LastHit
<1>2. CASE m[p] # 0
  <2>1. N(p) <=> N(p + 1)
    <3>1. ASSUME N(p) PROVE N(p + 1)
      <4>1. PICK e \in Nat : e >= p /\ m[e] = 0
        BY <3>1
      <4>2. e # p
        BY <1>2, <4>1
      <4>3. e >= p + 1
        BY <4>1, <4>2
      <4> QED BY <4>1, <4>3
    <3>2. ASSUME N(p + 1) PROVE N(p)
      <4>1. PICK e \in Nat : e >= p + 1 /\ m[e] = 0
        BY <3>2
      <4> QED BY <4>1
    <3> QED BY <3>1, <3>2
  <2>2. ASSUME NEW q PROVE q \in H(p) <=> q \in H(p + 1) \/ (q = p /\ m[p] = c)
    <3>1. CASE q \in Nat /\ q > p
      <4>1. p..q = {p} \cup ((p + 1)..q)
        BY <3>1
      <4> QED BY <1>2, <3>1, <4>1 DEF HitsBehind
    <3>2. CASE q = p
      <4>1. p..q = {p} /\ ~(q >= p + 1)
        BY <3>2
      <4> QED BY <1>2, <3>2, <4>1 DEF HitsBehind
    <3>3. CASE ~(q \in Nat /\ q >= p)
      <4>1. ~(q \in Nat /\ q >= p + 1) /\ q # p
        BY <3>3
      <4> QED BY <3>3, <4>1 DEF HitsBehind
    <3> QED BY <3>1, <3>2, <3>3
  <2>3. H(p) \subseteq Nat /\ H(p + 1) \subseteq Nat /\ \A q \in H(p + 1) : q > p
    BY DEF HitsBehind
  <2>4. LastHit(m, c, p, save) = IF N(p) THEN IF H(p) = {} THEN save ELSE Last(H(p)) ELSE 0
    BY DEF LastHit
  <2>5. LastHit(m, c, p + 1, kept) =
            IF N(p + 1) THEN IF H(p + 1) = {} THEN kept ELSE Last(H(p + 1)) ELSE 0
    BY DEF LastHit
  <2> HIDE DEF H, N
  <2>6. CASE ~N(p)
    BY <1>2, <2>1, <2>4, <2>5, <2>6
  <2>7. CASE N(p) /\ m[p] # c
    <3>1. H(p) = H(p + 1)
      BY <2>2, <2>7
    <3> QED BY <1>2, <2>1, <2>4, <2>5, <2>7, <3>1
  <2>8. CASE N(p) /\ m[p] = c /\ H(p + 1) = {}
    <3>1. H(p) = {p}
      BY <2>2, <2>8
    <3>2. Last({p}) = p
      BY LastIs
    <3> QED BY <1>2, <2>1, <2>4, <2>5, <2>8, <3>1, <3>2
  <2>9. CASE N(p) /\ m[p] = c /\ H(p + 1) # {}
    <3>1. PICK e \in Nat : e >= p + 1 /\ m[e] = 0
      BY <2>1, <2>9 DEF N
    <3>2. ASSUME NEW q \in H(p + 1) PROVE q <= e
      <4>1. q \in Nat /\ \A r \in (p + 1)..q : m[r] # 0
        BY <3>2 DEF H, HitsBehind
      <4> QED BY <3>1, <4>1
    <3>3. Last(H(p + 1)) \in H(p + 1) /\ \A q \in H(p + 1) : Last(H(p + 1)) >= q
      BY <2>3, <2>9, <3>2, LastOf
    <3>4. Last(H(p + 1)) \in H(p) /\ \A q \in H(p) : Last(H(p + 1)) >= q
      <4>1. Last(H(p + 1)) \in Nat /\ Last(H(p + 1)) > p
        BY <2>3, <3>3
      <4> QED BY <2>2, <3>3, <4>1
    <3>5. Last(H(p)) = Last(H(p + 1))
      BY <2>3, <3>4, LastIs
    <3>6. H(p) # {}
      BY <3>4
    <3> QED BY <1>2, <2>1, <2>4, <2>5, <2>9, <3>5, <3>6
  <2> QED BY <2>6, <2>7, <2>8, <2>9
<1> QED BY <1>1, <1>2

LEMMA LastHitIsNat ==
    ASSUME NEW m, NEW c, NEW p \in Nat, NEW save \in Nat
    PROVE  LastHit(m, c, p, save) \in Nat
<1> DEFINE H == HitsBehind(m, c, p)
<1>1. ASSUME NEW e \in Nat, e >= p, m[e] = 0, H # {} PROVE Last(H) \in Nat
  <2>1. H \subseteq Nat
    BY DEF HitsBehind
  <2>2. ASSUME NEW q \in H PROVE q <= e
    <3>1. q \in Nat /\ \A r \in p..q : m[r] # 0
      BY DEF HitsBehind
    <3> QED BY <1>1, <3>1
  <2> QED BY <1>1, <2>1, <2>2, LastOf
<1> QED BY <1>1 DEF LastHit

LEMMA StrrchrLoops ==
    ASSUME NEW m, NEW c
    PROVE  \E g : StrrchrLoop(g, m, c)
<1> DEFINE g == [x \in Nat \X Nat |-> LastHit(m, c, x[1], x[2])]
<1>1. ASSUME NEW x \in Nat \X Nat
      PROVE  g[x] = IF m[x[1]] = 0 THEN x[2]
                    ELSE g[<<x[1] + 1, IF m[x[1]] = c THEN x[1] ELSE x[2]>>]
  <2> DEFINE p == x[1]
             save == x[2]
             kept == IF m[p] = c THEN p ELSE save
  <2>1. p \in Nat /\ save \in Nat /\ kept \in Nat /\ p + 1 \in Nat
    OBVIOUS
  <2>2. g[x] = LastHit(m, c, p, save)
    OBVIOUS
  <2>3. g[<<p + 1, kept>>] = LastHit(m, c, p + 1, kept)
    BY <2>1
  <2>4. LastHit(m, c, p, save) = IF m[p] = 0 THEN save ELSE LastHit(m, c, p + 1, kept)
    BY <2>1, LastHitSteps
  <2> HIDE DEF g
  <2> QED BY <2>2, <2>3, <2>4
<1>2. g = [x \in Nat \X Nat |-> g[x]]
  OBVIOUS
<1>3. StrrchrLoop(g, m, c)
  <2> HIDE DEF g
  <2> QED BY <1>1, <1>2 DEF StrrchrLoop
<1> QED BY <1>3

LEMMA StrrchrFinds ==
    ASSUME NEW m, NEW s \in Nat, NEW c, NEW e, Ends(m, s, e)
    PROVE  strrchr(m, s, c) = LastHit(m, c, s, 0)
<1> DEFINE f == CHOOSE g : StrrchrLoop(g, m, c)
           D == {d \in 0..(e - s) : \E save \in Nat : f[<<e - d, save>>] # LastHit(m, c, e - d, save)}
<1>1. strrchr(m, s, c) = f[<<s, 0>>]
  BY DEF strrchr, StrrchrLoop
<1>2. StrrchrLoop(f, m, c)
  BY StrrchrLoops, Zenon
<1> HIDE DEF f
<1>3. ASSUME NEW p \in Nat, NEW save \in Nat
      PROVE  f[<<p, save>>] = IF m[p] = 0 THEN save
                              ELSE f[<<p + 1, IF m[p] = c THEN p ELSE save>>]
  <2>1. <<p, save>> \in Nat \X Nat /\ <<p, save>>[1] = p /\ <<p, save>>[2] = save
    OBVIOUS
  <2> QED BY <1>2, <2>1 DEF StrrchrLoop
<1>4. e \in Nat /\ e >= s /\ m[e] = 0 /\ \A q \in s..(e - 1) : m[q] # 0
  BY DEF Ends
<1>5. D = {}
  <2>1. SUFFICES ASSUME D # {} PROVE FALSE
    OBVIOUS
  <2>2. PICK d \in D : \A b \in D : d <= b
    <3>1. D \subseteq Nat
      OBVIOUS
    <3> HIDE DEF D
    <3> QED BY <2>1, <3>1, LeastNat
  <2>3. d \in Nat /\ d <= e - s /\ e - d \in Nat
    BY <1>4
  <2>4. PICK save \in Nat : f[<<e - d, save>>] # LastHit(m, c, e - d, save)
    OBVIOUS
  <2>5. m[e - d] # 0
    <3>1. ASSUME m[e - d] = 0
          PROVE  f[<<e - d, save>>] = save /\ LastHit(m, c, e - d, save) = save
      <4>1. f[<<e - d, save>>] = save
        BY <1>3, <2>3, <3>1
      <4>2. LastHit(m, c, e - d, save) = save
        BY <2>3, <3>1, LastHitSteps
      <4> QED BY <4>1, <4>2
    <3> QED BY <2>4, <3>1
  <2>6. d # 0
    BY <1>4, <2>5
  <2>7. (e - d) + 1 = e - (d - 1) /\ d - 1 \in 0..(e - s) /\ ~(d <= d - 1)
    BY <1>4, <2>3, <2>6
  <2>8. d - 1 \notin D
    BY <2>2, <2>7
  <2> DEFINE kept == IF m[e - d] = c THEN e - d ELSE save
  <2>9. kept \in Nat
    BY <2>3
  <2>10. f[<<e - d, save>>] = f[<<e - (d - 1), kept>>]
    BY <1>3, <2>3, <2>5, <2>7
  <2>11. LastHit(m, c, e - d, save) = LastHit(m, c, e - (d - 1), kept)
    BY <2>3, <2>5, <2>7, LastHitSteps
  <2>12. f[<<e - (d - 1), kept>>] = LastHit(m, c, e - (d - 1), kept)
    BY <2>7, <2>8, <2>9
  <2> QED BY <2>4, <2>10, <2>11, <2>12
<1>6. e - s \in 0..(e - s) /\ e - (e - s) = s /\ 0 \in Nat
  BY <1>4
<1>7. e - s \notin D
  BY <1>5
<1>8. f[<<s, 0>>] = LastHit(m, c, s, 0)
  BY <1>6, <1>7
<1> QED BY <1>1, <1>8

\* strstr's loop stops at z, where too little is left or where the text is.
StrstrStops(m, s, t, n, end, z) ==
    /\ z \in Nat /\ z >= s
    /\ end - z < n \/ memcmp(m, z, t, n) = 0
    /\ \A q \in s..(z - 1) : ~(end - q < n) /\ memcmp(m, q, t, n) # 0

LEMMA StrstrFinds ==
    ASSUME NEW m, NEW s \in Nat, NEW t, NEW n, n = strlen(m, t),
           NEW end, end = s + strlen(m, s), NEW z, StrstrStops(m, s, t, n, end, z)
    PROVE  strstr(m, s, t) = IF end - z < n THEN 0 ELSE z
<1> DEFINE Loop(g) == g = [p \in Nat |-> IF end - p < n THEN 0
                                         ELSE IF memcmp(m, p, t, n) = 0 THEN p ELSE g[p + 1]]
           f == CHOOSE g : Loop(g)
           Z == {p \in Nat : end - p < n \/ memcmp(m, p, t, n) = 0}
           v == [p \in Nat |-> IF end - p < n THEN 0 ELSE p]
<1>1. strstr(m, s, t) = f[s]
  BY DEF strstr
<1>2. \A g : Loop(g) <=> IsSearch(g, Z, v)
  <2> SUFFICES ASSUME NEW g PROVE Loop(g) <=> IsSearch(g, Z, v)
    OBVIOUS
  <2>1. \A p \in Nat :
           (IF end - p < n THEN 0 ELSE IF memcmp(m, p, t, n) = 0 THEN p ELSE g[p + 1])
           = IF p \in Z THEN v[p] ELSE g[p + 1]
    OBVIOUS
  <2> HIDE DEF Z, v
  <2> QED BY <2>1 DEF IsSearch
<1>3. /\ z \in Z /\ z \in Nat /\ z >= s /\ v[z] = (IF end - z < n THEN 0 ELSE z)
      /\ \A q \in s..(z - 1) : q \notin Z
  BY DEF StrstrStops
<1>4. Z \subseteq Nat
  OBVIOUS
<1> HIDE DEF Loop, Z, v
<1>5. Loop(f)
  BY <1>2, <1>4, SearchExists, Zenon
<1> HIDE DEF f
<1>6. IsSearch(f, Z, v)
  BY <1>2, <1>5
<1>7. f[s] = v[z]
  BY <1>3, <1>6, SearchFinds
<1> QED BY <1>1, <1>3, <1>7

\* The addresses are the numbers from 1 to MEM.
LEMMA InAddr == ASSUME NEW x \in Int, 1 <= x, x <= MEM PROVE x \in Addr
BY DEF Addr

\* memcmp is 0 exactly on equal regions.
LEMMA MemcmpTells ==
    ASSUME NEW m \in [Addr -> Nat], NEW a \in Addr, NEW b \in Addr, NEW n \in Nat,
           a + n - 1 <= MEM, b + n - 1 <= MEM
    PROVE  memcmp(m, a, b, n) = 0 <=> \A k \in 0..(n - 1) : m[a + k] = m[b + k]
<1> DEFINE Z == {k \in 0..n : k = n \/ m[a + k] # m[b + k]}
<1>0. a \in Nat /\ b \in Nat
  BY MemAssumption DEF Addr
<1>1. n \in Z /\ Z \subseteq Nat
  OBVIOUS
<1>2. PICK k \in Z : \A j \in Z : k <= j
  <2> HIDE DEF Z
  <2> QED BY <1>1, LeastNat
<1>3. k \in 0..n /\ (k = n \/ m[a + k] # m[b + k])
  OBVIOUS
<1>4. \A j \in 0..(k - 1) : m[a + j] = m[b + j]
  <2> SUFFICES ASSUME NEW j \in 0..(k - 1), m[a + j] # m[b + j] PROVE FALSE
    OBVIOUS
  <2>1. j \in Z /\ ~(k <= j)
    BY <1>3
  <2> QED BY <1>2, <2>1
<1>5. memcmp(m, a, b, n) = IF k = n THEN 0 ELSE m[a + k] - m[b + k]
  <2>1. MemcmpStops(m, a, b, n, k)
    BY <1>3, <1>4 DEF MemcmpStops
  <2> QED BY <1>0, <2>1, MemcmpFinds
<1>6. CASE k = n
  BY <1>4, <1>5, <1>6
<1>7. CASE k # n
  <2>1. a + k \in Addr /\ b + k \in Addr /\ k \in 0..(n - 1)
    BY <1>3, <1>7, MemAssumption DEF Addr
  <2>2. m[a + k] \in Nat /\ m[b + k] \in Nat /\ m[a + k] # m[b + k]
    BY <1>3, <1>7, <2>1
  <2> QED BY <1>5, <1>7, <2>1, <2>2
<1> QED BY <1>6, <1>7

-----------------------------------------------------------------------------
\* The length of a string and its text.
LEMMA LengthOfString ==
    ASSUME NEW m, NEW s \in Addr, IsString(m, s)
    PROVE  /\ s \in Nat /\ s > 0 /\ s <= MEM
           /\ EndOf(m, s) \in Nat /\ s <= EndOf(m, s) /\ EndOf(m, s) <= MEM
           /\ m[EndOf(m, s)] = 0
           /\ \A q \in s..(EndOf(m, s) - 1) : m[q] # 0
           /\ strlen(m, s) = EndOf(m, s) - s
<1>1. s \in Nat /\ s > 0 /\ s <= MEM
  BY MemAssumption DEF Addr
<1>2. EndOf(m, s) \in s..MEM /\ Ends(m, s, EndOf(m, s))
  BY <1>1, EndOfString
<1>3. strlen(m, s) = EndOf(m, s) - s
  BY <1>1, <1>2, StrlenFinds
<1> QED BY <1>1, <1>2, <1>3, MemAssumption DEF Ends

\* k is how far two strings agree: they differ there, or one ends there.
Differ(m, a, b, k) ==
    /\ k \in Nat /\ a + k <= EndOf(m, a) /\ b + k <= EndOf(m, b)
    /\ m[a + k] = 0 \/ m[b + k] = 0 \/ m[a + k] # m[b + k]
    /\ \A j \in 0..(k - 1) : m[a + j] # 0 /\ m[b + j] # 0 /\ m[a + j] = m[b + j]

LEMMA StringsDiffer ==
    ASSUME NEW m, NEW a \in Strings(m), NEW b \in Strings(m)
    PROVE  \E k : Differ(m, a, b, k)
<1> DEFINE Z == {k \in Nat : m[a + k] = 0 \/ m[b + k] = 0 \/ m[a + k] # m[b + k]}
           la == EndOf(m, a) - a
           lb == EndOf(m, b) - b
<1>1. a \in Addr /\ IsString(m, a) /\ b \in Addr /\ IsString(m, b)
  BY DEF Strings
<1>2. /\ a \in Nat /\ EndOf(m, a) \in Nat /\ a <= EndOf(m, a) /\ m[EndOf(m, a)] = 0
      /\ b \in Nat /\ EndOf(m, b) \in Nat /\ b <= EndOf(m, b) /\ m[EndOf(m, b)] = 0
  BY <1>1, LengthOfString
<1>3. la \in Nat /\ lb \in Nat /\ a + la = EndOf(m, a) /\ b + lb = EndOf(m, b)
  BY <1>2
<1>4. la \in Z /\ lb \in Z /\ Z \subseteq Nat
  BY <1>2, <1>3
<1>5. PICK k \in Z : \A j \in Z : k <= j
  <2> HIDE DEF Z
  <2> QED BY <1>4, LeastNat
<1>6. k \in Nat /\ k <= la /\ k <= lb
  BY <1>4, <1>5
<1>7. a + k <= EndOf(m, a) /\ b + k <= EndOf(m, b)
  BY <1>2, <1>6
<1>8. ASSUME NEW j \in 0..(k - 1) PROVE j \notin Z
  <2>1. ~(k <= j)
    BY <1>6
  <2> QED BY <1>5, <2>1
<1>9. \A j \in 0..(k - 1) : m[a + j] # 0 /\ m[b + j] # 0 /\ m[a + j] = m[b + j]
  BY <1>6, <1>8
<1> QED BY <1>5, <1>6, <1>7, <1>9 DEF Differ

\* Which text comes first is settled where they stop agreeing.
LEMMA BeforeIs ==
    ASSUME NEW m \in [Addr -> Nat], NEW a \in Strings(m), NEW b \in Strings(m),
           NEW k, Differ(m, a, b, k), NEW n \in Nat
    PROVE  Before(Text(m, a), Text(m, b), n) <=> k < n /\ m[a + k] < m[b + k]
<1> DEFINE la == EndOf(m, a) - a
           lb == EndOf(m, b) - b
           A == Text(m, a)
           B == Text(m, b)
<1>1. a \in Addr /\ IsString(m, a) /\ b \in Addr /\ IsString(m, b)
  BY DEF Strings
<1>2. /\ a \in Nat /\ a > 0 /\ EndOf(m, a) \in Nat /\ a <= EndOf(m, a) /\ m[EndOf(m, a)] = 0
      /\ b \in Nat /\ b > 0 /\ EndOf(m, b) \in Nat /\ b <= EndOf(m, b) /\ m[EndOf(m, b)] = 0
      /\ EndOf(m, a) <= MEM /\ EndOf(m, b) <= MEM
  BY <1>1, LengthOfString
<1>3. la \in Nat /\ lb \in Nat /\ a + la = EndOf(m, a) /\ b + lb = EndOf(m, b)
  BY <1>2
<1>4. /\ k \in Nat /\ k <= la /\ k <= lb
      /\ m[a + k] = 0 \/ m[b + k] = 0 \/ m[a + k] # m[b + k]
      /\ \A j \in 0..(k - 1) : m[a + j] # 0 /\ m[b + j] # 0 /\ m[a + j] = m[b + j]
  BY <1>2 DEF Differ
<1>5. DOMAIN A = 1..la /\ \A j \in 1..la : A[j] = m[a + j - 1]
  BY DEF Text
<1>6. DOMAIN B = 1..lb /\ \A j \in 1..lb : B[j] = m[b + j - 1]
  BY DEF Text
<1>7. m[a + k] \in Nat /\ m[b + k] \in Nat
  <2>1. a + k \in Addr /\ b + k \in Addr
    <3>1. /\ a + k \in Int /\ 1 <= a + k /\ a + k <= MEM
          /\ b + k \in Int /\ 1 <= b + k /\ b + k <= MEM
      BY <1>2, <1>3, <1>4, MemAssumption
    <3> QED BY <3>1, InAddr
  <2> QED BY <2>1
<1>8. /\ \A j \in 0..(la - 1) : m[a + j] # 0
      /\ \A j \in 0..(lb - 1) : m[b + j] # 0
  <2>1. /\ \A q \in a..(EndOf(m, a) - 1) : m[q] # 0
        /\ \A q \in b..(EndOf(m, b) - 1) : m[q] # 0
    BY <1>1, LengthOfString
  <2>2. ASSUME NEW j \in 0..(la - 1) PROVE a + j \in a..(EndOf(m, a) - 1)
    BY <1>2
  <2>3. ASSUME NEW j \in 0..(lb - 1) PROVE b + j \in b..(EndOf(m, b) - 1)
    BY <1>2
  <2> QED BY <2>1, <2>2, <2>3
<1> HIDE DEF A, B, la, lb
<1>9. ASSUME Before(A, B, n) PROVE k < n /\ m[a + k] < m[b + k]
  <2>1. PICK h \in 1..n :
           /\ \A j \in 1..(h - 1) : j \in DOMAIN A /\ j \in DOMAIN B /\ A[j] = B[j]
           /\ h \in DOMAIN B
           /\ h \in DOMAIN A => A[h] < B[h]
    BY <1>9 DEF Before
  <2>2. ~(k + 1 < h)
    <3> SUFFICES ASSUME k + 1 < h PROVE FALSE
      OBVIOUS
    <3>1. k + 1 \in 1..(h - 1)
      BY <1>4
    <3>2. k + 1 \in 1..la /\ k + 1 \in 1..lb /\ A[k + 1] = B[k + 1]
      BY <1>5, <1>6, <2>1, <3>1
    <3>3. A[k + 1] = m[a + k] /\ B[k + 1] = m[b + k]
      <4>1. a + (k + 1) - 1 = a + k /\ b + (k + 1) - 1 = b + k
        BY <1>2, <1>4
      <4> QED BY <1>5, <1>6, <3>2, <4>1
    <3>4. k \in 0..(la - 1) /\ k \in 0..(lb - 1)
      BY <1>3, <1>4, <3>2
    <3> QED BY <1>4, <1>8, <3>2, <3>3, <3>4
  <2>3. ~(h - 1 < k)
    <3> SUFFICES ASSUME h - 1 < k PROVE FALSE
      OBVIOUS
    <3>1. h \in 1..la /\ h \in 1..lb /\ h - 1 \in 0..(k - 1)
      BY <1>3, <1>4
    <3>2. A[h] < B[h] /\ A[h] = m[a + (h - 1)] /\ B[h] = m[b + (h - 1)]
      <4>1. a + h - 1 = a + (h - 1) /\ b + h - 1 = b + (h - 1)
        BY <1>2
      <4> QED BY <1>5, <1>6, <2>1, <3>1, <4>1
    <3>3. A[h] = B[h] /\ A[h] \in Nat
      <4>1. a + (h - 1) \in Addr
        BY <1>2, <1>3, <3>1, MemAssumption DEF Addr
      <4> QED BY <1>4, <3>1, <3>2, <4>1
    <3> QED BY <3>2, <3>3
  <2>4. h = k + 1 /\ k < n
    BY <1>4, <2>2, <2>3
  <2>5. k + 1 \in 1..lb /\ B[k + 1] = m[b + k]
    <3>1. b + (k + 1) - 1 = b + k
      BY <1>2, <1>4
    <3> QED BY <1>6, <2>1, <2>4, <3>1
  <2>6. CASE k < la
    <3>1. k + 1 \in 1..la /\ A[k + 1] = m[a + k]
      <4>1. a + (k + 1) - 1 = a + k /\ k + 1 \in 1..la
        BY <1>2, <1>3, <1>4, <2>6
      <4> QED BY <1>5, <4>1
    <3> QED BY <1>5, <2>1, <2>4, <2>5, <3>1
  <2>7. CASE k = la
    <3>1. m[a + k] = 0 /\ m[b + k] # 0
      <4>1. k \in 0..(lb - 1)
        BY <1>3, <1>4, <2>5
      <4> QED BY <1>2, <1>3, <1>8, <2>7, <4>1
    <3> QED BY <1>7, <2>4, <3>1
  <2> QED BY <1>3, <1>4, <2>6, <2>7
<1>10. ASSUME k < n, m[a + k] < m[b + k] PROVE Before(A, B, n)
  <2>1. k + 1 \in 1..n
    BY <1>4, <1>10
  <2>2. k < lb
    <3>1. k # lb
      BY <1>2, <1>3, <1>7, <1>10
    <3> QED BY <1>3, <1>4, <3>1
  <2>3. k + 1 \in DOMAIN B /\ B[k + 1] = m[b + k]
    <3>1. b + (k + 1) - 1 = b + k /\ k + 1 \in 1..lb
      BY <1>2, <1>3, <1>4, <2>2
    <3> QED BY <1>6, <3>1
  <2>4. k + 1 \in DOMAIN A => A[k + 1] = m[a + k]
    <3>1. a + (k + 1) - 1 = a + k
      BY <1>2, <1>4
    <3> QED BY <1>5, <3>1
  <2>5. ASSUME NEW j \in 1..((k + 1) - 1)
        PROVE  j \in DOMAIN A /\ j \in DOMAIN B /\ A[j] = B[j]
    <3>1. j \in 1..la /\ j \in 1..lb /\ j - 1 \in 0..(k - 1)
      BY <1>3, <1>4
    <3>2. a + j - 1 = a + (j - 1) /\ b + j - 1 = b + (j - 1)
      BY <1>2
    <3> QED BY <1>4, <1>5, <1>6, <3>1, <3>2
  <2> QED BY <1>10, <2>1, <2>3, <2>4, <2>5 DEF Before
<1> QED BY <1>9, <1>10 DEF A, B

LEMMA CompareRight ==
    ASSUME NEW m \in [Addr -> Nat], NEW a \in Strings(m), NEW b \in Strings(m)
    PROVE  /\ Agrees(strcmp(m, a, b), Text(m, a), Text(m, b), MEM)
           /\ \A n \in 0..MEM : Agrees(strncmp(m, a, b, n), Text(m, a), Text(m, b), n)
<1>1. PICK k : Differ(m, a, b, k)
  BY StringsDiffer
<1>2. Differ(m, b, a, k)
  BY <1>1 DEF Differ
<1>3. /\ a \in Nat /\ a > 0 /\ EndOf(m, a) \in Nat /\ EndOf(m, a) <= MEM
      /\ b \in Nat /\ b > 0 /\ EndOf(m, b) \in Nat /\ EndOf(m, b) <= MEM
  BY LengthOfString DEF Strings
<1>4. /\ k \in Nat /\ a + k <= MEM /\ b + k <= MEM /\ k < MEM
      /\ m[a + k] = 0 \/ m[b + k] = 0 \/ m[a + k] # m[b + k]
      /\ \A j \in 0..(k - 1) : m[a + j] # 0 /\ m[b + j] # 0 /\ m[a + j] = m[b + j]
  BY <1>1, <1>3, MemAssumption DEF Differ
<1>5. m[a + k] \in Nat /\ m[b + k] \in Nat
  <2>1. a + k \in Addr /\ b + k \in Addr
    <3>1. /\ a + k \in Int /\ 1 <= a + k /\ a + k <= MEM
          /\ b + k \in Int /\ 1 <= b + k /\ b + k <= MEM
      BY <1>3, <1>4, MemAssumption
    <3> QED BY <3>1, InAddr
  <2> QED BY <2>1
<1>6. ASSUME NEW n \in Nat
      PROVE  /\ Before(Text(m, a), Text(m, b), n) <=> k < n /\ m[a + k] < m[b + k]
             /\ Before(Text(m, b), Text(m, a), n) <=> k < n /\ m[b + k] < m[a + k]
  BY <1>1, <1>2, BeforeIs
<1>7. Agrees(strcmp(m, a, b), Text(m, a), Text(m, b), MEM)
  <2>1. strcmp(m, a, b) = m[a + k] - m[b + k]
    <3>1. StrcmpStops(m, a, b, k)
      BY <1>4 DEF StrcmpStops
    <3> QED BY <1>3, <1>4, <3>1, StrcmpFinds
  <2>2. /\ Before(Text(m, a), Text(m, b), MEM) <=> m[a + k] < m[b + k]
        /\ Before(Text(m, b), Text(m, a), MEM) <=> m[b + k] < m[a + k]
    BY <1>4, <1>6, MemAssumption
  <2> QED BY <1>5, <2>1, <2>2 DEF Agrees
<1>8. ASSUME NEW n \in 0..MEM
      PROVE  Agrees(strncmp(m, a, b, n), Text(m, a), Text(m, b), n)
  <2>0. n \in Nat
    BY MemAssumption
  <2>1. CASE n <= k
    <3>1. n \in 0..n /\ \A j \in 0..(n - 1) : m[a + j] # 0 /\ m[a + j] = m[b + j]
      BY <1>4, <2>0, <2>1
    <3>2. strncmp(m, a, b, n) = 0
      <4>1. StrncmpStops(m, a, b, n, n)
        BY <3>1 DEF StrncmpStops
      <4> QED BY <1>3, <2>0, <4>1, StrncmpFinds
    <3>3. ~Before(Text(m, a), Text(m, b), n) /\ ~Before(Text(m, b), Text(m, a), n)
      BY <1>4, <1>6, <2>0, <2>1
    <3> QED BY <3>2, <3>3 DEF Agrees
  <2>2. CASE k < n
    <3>1. k \in 0..n /\ (m[a + k] # m[b + k] \/ m[a + k] = 0)
          /\ \A j \in 0..(k - 1) : m[a + j] # 0 /\ m[a + j] = m[b + j]
      BY <1>4, <2>0, <2>2
    <3>2. strncmp(m, a, b, n) = IF k = n \/ m[a + k] = m[b + k] THEN 0 ELSE m[a + k] - m[b + k]
      <4>1. StrncmpStops(m, a, b, n, k)
        BY <3>1 DEF StrncmpStops
      <4> QED BY <1>3, <2>0, <4>1, StrncmpFinds
    <3>3. strncmp(m, a, b, n) = m[a + k] - m[b + k]
      BY <1>4, <1>5, <2>0, <2>2, <3>2
    <3>4. /\ Before(Text(m, a), Text(m, b), n) <=> m[a + k] < m[b + k]
          /\ Before(Text(m, b), Text(m, a), n) <=> m[b + k] < m[a + k]
      BY <1>6, <2>0, <2>2
    <3> QED BY <1>5, <3>3, <3>4 DEF Agrees
  <2> QED BY <1>4, <2>0, <2>1, <2>2
<1> QED BY <1>7, <1>8

-----------------------------------------------------------------------------
\* What strchr and strrchr find.
CharAt(m, s, c) == {p \in Places(m, s) : m[p] = c}

LEMMA StrchrRight ==
    ASSUME NEW m, NEW s \in Strings(m), NEW c
    PROVE  strchr(m, s, c) = IF c = 0 THEN EndOf(m, s) ELSE First(CharAt(m, s, c))
<1> DEFINE e == EndOf(m, s)
           at == CharAt(m, s, c)
<1>1. /\ s \in Nat /\ s > 0 /\ e \in Nat /\ s <= e /\ m[e] = 0
      /\ \A q \in s..(e - 1) : m[q] # 0
  BY LengthOfString DEF Strings
<1>2. at = {p \in s..(e - 1) : m[p] = c}
  BY DEF CharAt, Places
<1> HIDE DEF e, at
<1>3. CASE c = 0
  <2>1. strchr(m, s, c) = e
    BY <1>1, <1>3, StrchrFinds
  <2> QED BY <1>3, <2>1 DEF e
<1>4. CASE c # 0 /\ at = {}
  <2>1. \A q \in s..(e - 1) : m[q] # c /\ m[q] # 0
    BY <1>1, <1>2, <1>4
  <2>2. strchr(m, s, c) = IF m[e] = c THEN e ELSE 0
    BY <1>1, <2>1, StrchrFinds
  <2> QED BY <1>1, <1>4, <2>2 DEF First, at
<1>5. CASE c # 0 /\ at # {}
  <2>1. at \subseteq Nat
    BY <1>1, <1>2
  <2>2. First(at) \in at /\ \A y \in at : First(at) <= y
    BY <1>5, <2>1, FirstOf
  <2> DEFINE x == First(at)
  <2>3. x \in Nat /\ x >= s /\ x <= e - 1 /\ m[x] = c
    BY <1>1, <1>2, <2>2
  <2>4. ASSUME NEW q \in s..(x - 1) PROVE m[q] # c /\ m[q] # 0
    <3>1. q \in s..(e - 1) /\ ~(x <= q)
      BY <1>1, <2>3
    <3>2. q \notin at
      BY <2>2, <3>1
    <3> QED BY <1>1, <1>2, <3>1, <3>2
  <2> HIDE DEF x
  <2>5. strchr(m, s, c) = IF m[x] = c THEN x ELSE 0
    BY <1>1, <2>3, <2>4, StrchrFinds
  <2> QED BY <1>5, <2>3, <2>5 DEF x, at
<1> QED BY <1>3, <1>4, <1>5

LEMMA StrrchrRight ==
    ASSUME NEW m, NEW s \in Strings(m), NEW c
    PROVE  strrchr(m, s, c) = Last(CharAt(m, s, c))
<1> DEFINE e == EndOf(m, s)
           at == CharAt(m, s, c)
<1>1. /\ s \in Nat /\ s > 0 /\ e \in Nat /\ s <= e /\ m[e] = 0
      /\ \A q \in s..(e - 1) : m[q] # 0
  BY LengthOfString DEF Strings
<1>2. at = {p \in s..(e - 1) : m[p] = c}
  BY DEF CharAt, Places
<1>3. strrchr(m, s, c) = LastHit(m, c, s, 0)
  <2>1. Ends(m, s, e)
    BY <1>1 DEF Ends
  <2> QED BY <1>1, <2>1, StrrchrFinds
<1> HIDE DEF e, at
<1>4. HitsBehind(m, c, s) = at
  <2>1. ASSUME NEW q \in HitsBehind(m, c, s) PROVE q \in at
    <3>1. q \in Nat /\ q >= s /\ m[q] = c /\ \A r \in s..q : m[r] # 0
      BY DEF HitsBehind
    <3>2. ~(e <= q)
      BY <1>1, <3>1
    <3> QED BY <1>1, <1>2, <3>1, <3>2
  <2>2. ASSUME NEW q \in at PROVE q \in HitsBehind(m, c, s)
    <3>1. q \in s..(e - 1) /\ m[q] = c
      BY <1>2
    <3>2. q \in Nat /\ q >= s /\ \A r \in s..q : r \in s..(e - 1)
      BY <1>1, <3>1
    <3> QED BY <1>1, <3>1, <3>2 DEF HitsBehind
  <2> QED BY <2>1, <2>2
<1>5. \E z \in Nat : z >= s /\ m[z] = 0
  BY <1>1
<1>6. LastHit(m, c, s, 0) = IF at = {} THEN 0 ELSE Last(at)
  BY <1>4, <1>5 DEF LastHit
<1>7. at = {} => Last(at) = 0
  BY DEF Last
<1> QED BY <1>3, <1>6, <1>7 DEF at

\* What strpbrk, strcspn and strspn find.
Chars(m, t)    == {m[p] : p \in Places(m, t)}
AtSet(m, s, t) == {p \in Places(m, s) : m[p] \in Chars(m, t)}
OffSet(m, s, t) == {p \in s..EndOf(m, s) : m[p] \notin Chars(m, t)}

LEMMA CharsOf ==
    ASSUME NEW m, NEW t \in Strings(m)
    PROVE  0 \notin Chars(m, t) /\ \A c : In(m, t, c) <=> c \in Chars(m, t)
<1>1. t \in Addr /\ IsString(m, t) /\ t \in Nat \ {0}
  BY LengthOfString DEF Strings
<1>2. \A c : In(m, t, c) <=> c \in Chars(m, t)
  BY <1>1, InText DEF Chars
<1>3. ~In(m, t, 0)
  BY DEF In
<1> QED BY <1>2, <1>3

LEMMA ScanRight ==
    ASSUME NEW m, NEW s \in Strings(m), NEW t \in Strings(m)
    PROVE  /\ strpbrk(m, s, t) = First(AtSet(m, s, t))
           /\ strcspn(m, s, t) =
                 (IF AtSet(m, s, t) = {} THEN EndOf(m, s) ELSE First(AtSet(m, s, t))) - s
<1> DEFINE e == EndOf(m, s)
           at == AtSet(m, s, t)
           x == IF at = {} THEN e ELSE First(at)
<1>1. /\ s \in Nat /\ s > 0 /\ e \in Nat /\ s <= e /\ m[e] = 0
      /\ \A q \in s..(e - 1) : m[q] # 0
  BY LengthOfString DEF Strings
<1>2. 0 \notin Chars(m, t) /\ \A c : In(m, t, c) <=> c \in Chars(m, t)
  BY CharsOf
<1>3. at = {p \in s..(e - 1) : In(m, t, m[p])}
  BY <1>2 DEF AtSet, Places
<1> HIDE DEF e, at
<1>4. /\ x \in Nat /\ x >= s
      /\ m[x] = 0 \/ In(m, t, m[x])
      /\ \A q \in s..(x - 1) : m[q] # 0 /\ ~In(m, t, m[q])
      /\ m[x] = 0 <=> at = {}
  <2>1. CASE at = {}
    BY <1>1, <1>3, <2>1
  <2>2. CASE at # {}
    <3>1. at \subseteq Nat
      BY <1>1, <1>3
    <3>2. x \in at /\ \A y \in at : x <= y
      BY <2>2, <3>1, FirstOf
    <3> HIDE DEF x
    <3>3. x \in Nat /\ x >= s /\ x <= e - 1 /\ In(m, t, m[x]) /\ m[x] # 0
      BY <1>1, <1>3, <3>2
    <3>4. ASSUME NEW q \in s..(x - 1) PROVE m[q] # 0 /\ ~In(m, t, m[q])
      <4>1. q \in s..(e - 1) /\ ~(x <= q)
        BY <1>1, <3>3
      <4>2. q \notin at
        BY <3>2, <4>1
      <4> QED BY <1>1, <1>3, <4>1, <4>2
    <3> QED BY <2>2, <3>3, <3>4
  <2> QED BY <2>1, <2>2
<1>5. at = {} => First(at) = 0
  BY DEF First
<1>6. (IF m[x] = 0 THEN 0 ELSE x) = First(at)
  BY <1>4, <1>5
<1> HIDE DEF x
<1>7. scan_until(m, s, LAMBDA c : c = 0 \/ In(m, t, c)) = x
  BY <1>1, <1>4, ScanToSet
<1>8. strcspn(m, s, t) = x - s
  BY <1>7 DEF strcspn
<1>9. strpbrk(m, s, t) = IF m[x] = 0 THEN 0 ELSE x
  BY <1>7 DEF strpbrk
<1> QED BY <1>6, <1>8, <1>9 DEF x, at, e

LEMMA SpanRight ==
    ASSUME NEW m, NEW s \in Strings(m), NEW t \in Strings(m)
    PROVE  strspn(m, s, t) = First(OffSet(m, s, t)) - s
<1> DEFINE e == EndOf(m, s)
           off == OffSet(m, s, t)
           x == First(off)
<1>1. /\ s \in Nat /\ s > 0 /\ e \in Nat /\ s <= e /\ m[e] = 0
      /\ \A q \in s..(e - 1) : m[q] # 0
  BY LengthOfString DEF Strings
<1>2. 0 \notin Chars(m, t) /\ \A c : In(m, t, c) <=> c \in Chars(m, t)
  BY CharsOf
<1>3. off = {p \in s..e : ~In(m, t, m[p])}
  BY <1>2 DEF OffSet
<1>4. e \in off
  <2> HIDE DEF e, off
  <2> QED BY <1>1, <1>2, <1>3
<1> HIDE DEF e, off
<1>5. off \subseteq Nat
  BY <1>1, <1>3
<1>6. x \in off /\ \A y \in off : x <= y
  BY <1>4, <1>5, FirstOf
<1> HIDE DEF x
<1>7. x \in Nat /\ x >= s /\ x <= e /\ ~In(m, t, m[x])
  BY <1>1, <1>3, <1>6
<1>8. ASSUME NEW q \in s..(x - 1) PROVE In(m, t, m[q])
  <2>1. q \in s..e /\ ~(x <= q)
    BY <1>1, <1>7
  <2>2. q \notin off
    BY <1>6, <2>1
  <2> QED BY <1>3, <2>1, <2>2
<1>9. strspn(m, s, t) = x - s
  <2>1. SpanEnds(m, s, t, x)
    BY <1>7, <1>8 DEF SpanEnds
  <2> QED BY <1>1, <2>1, StrspnFinds
<1> QED BY <1>9 DEF x, off

\* What strstr finds.
TextAt(m, s, t) ==
    {p \in s..(EndOf(m, s) - (EndOf(m, t) - t)) :
        \A k \in 0..((EndOf(m, t) - t) - 1) : m[p + k] = m[t + k]}

LEMMA StrstrRight ==
    ASSUME NEW m \in [Addr -> Nat], NEW s \in Strings(m), NEW t \in Strings(m)
    PROVE  strstr(m, s, t) = First(TextAt(m, s, t))
<1> DEFINE e == EndOf(m, s)
           n == EndOf(m, t) - t
           hits == TextAt(m, s, t)
           z == IF hits # {} THEN First(hits) ELSE IF e - n + 1 >= s THEN e - n + 1 ELSE s
<1>1. /\ s \in Nat /\ s > 0 /\ e \in Nat /\ s <= e /\ e <= MEM /\ strlen(m, s) = e - s
  BY LengthOfString DEF Strings
<1>2. /\ t \in Nat /\ t > 0 /\ n \in Nat /\ t + n <= MEM /\ strlen(m, t) = n
  <2>1. /\ t \in Nat /\ t > 0 /\ EndOf(m, t) \in Nat /\ t <= EndOf(m, t) /\ EndOf(m, t) <= MEM
        /\ strlen(m, t) = EndOf(m, t) - t
    BY LengthOfString DEF Strings
  <2> QED BY <2>1
<1>3. hits = {p \in s..(e - n) : \A k \in 0..(n - 1) : m[p + k] = m[t + k]}
  BY DEF TextAt
<1> HIDE DEF e, n, hits
<1>4. ASSUME NEW p \in s..(e - n)
      PROVE  p \in hits <=> memcmp(m, p, t, n) = 0
  <2>1. p \in Addr /\ t \in Addr /\ p + n - 1 <= MEM /\ t + n - 1 <= MEM
    BY <1>1, <1>2, MemAssumption DEF Addr
  <2>2. memcmp(m, p, t, n) = 0 <=> \A k \in 0..(n - 1) : m[p + k] = m[t + k]
    BY <1>2, <2>1, MemcmpTells
  <2> QED BY <1>3, <2>2
<1>5. hits \subseteq Nat /\ hits \subseteq s..(e - n)
  BY <1>1, <1>2, <1>3
<1>6. z \in Nat /\ z >= s
  <2>1. CASE hits = {}
    BY <1>1, <1>2, <2>1
  <2>2. CASE hits # {}
    <3>1. First(hits) \in hits
      BY <1>5, <2>2, FirstOf
    <3>2. First(hits) \in s..(e - n)
      BY <1>5, <3>1
    <3>3. First(hits) \in Nat /\ First(hits) >= s
      BY <1>1, <1>2, <3>2
    <3> QED BY <2>2, <3>3
  <2> QED BY <2>1, <2>2
<1>7. CASE hits = {}
  <2>1. e - z < n
    BY <1>1, <1>2, <1>7
  <2> HIDE DEF z
  <2>2. ASSUME NEW q \in s..(z - 1) PROVE ~(e - q < n) /\ memcmp(m, q, t, n) # 0
    <3>1. q \in s..(e - n)
      BY <1>1, <1>2, <1>6, <1>7 DEF z
    <3> QED BY <1>1, <1>2, <1>4, <1>7, <3>1
  <2>3. StrstrStops(m, s, t, n, e, z)
    BY <1>6, <2>1, <2>2 DEF StrstrStops
  <2>4. strstr(m, s, t) = IF e - z < n THEN 0 ELSE z
    <3>1. n = strlen(m, t) /\ e = s + strlen(m, s)
      BY <1>1, <1>2
    <3> QED BY <1>1, <2>3, <3>1, StrstrFinds
  <2> QED BY <1>7, <2>1, <2>4 DEF First, hits
<1>8. CASE hits # {}
  <2>1. z \in hits /\ \A y \in hits : z <= y
    BY <1>5, <1>8, FirstOf
  <2>2. z = First(hits)
    BY <1>8
  <2> HIDE DEF z
  <2>3. z \in s..(e - n) /\ memcmp(m, z, t, n) = 0 /\ ~(e - z < n)
    BY <1>1, <1>2, <1>4, <1>5, <2>1
  <2>4. ASSUME NEW q \in s..(z - 1) PROVE ~(e - q < n) /\ memcmp(m, q, t, n) # 0
    <3>1. q \in s..(e - n) /\ ~(z <= q)
      BY <1>1, <1>2, <1>6, <2>3
    <3>2. q \notin hits
      BY <2>1, <3>1
    <3> QED BY <1>1, <1>2, <1>4, <3>1, <3>2
  <2>5. StrstrStops(m, s, t, n, e, z)
    BY <1>6, <2>3, <2>4 DEF StrstrStops
  <2>6. strstr(m, s, t) = IF e - z < n THEN 0 ELSE z
    <3>1. n = strlen(m, t) /\ e = s + strlen(m, s)
      BY <1>1, <1>2
    <3> QED BY <1>1, <2>5, <3>1, StrstrFinds
  <2> QED BY <2>2, <2>3, <2>6 DEF hits
<1> QED BY <1>7, <1>8

LEMMA SearchRight ==
    ASSUME mem \in [Addr -> Nat]
    PROVE  SearchesFindTheirPlace
<1> SUFFICES ASSUME NEW s \in Strings(mem)
             PROVE
        /\ \A c \in Char :
              /\ strchr(mem, s, c) = IF c = 0 THEN EndOf(mem, s) ELSE First(CharAt(mem, s, c))
              /\ strrchr(mem, s, c) = Last(CharAt(mem, s, c))
        /\ \A t \in Strings(mem) :
              /\ strpbrk(mem, s, t) = First(AtSet(mem, s, t))
              /\ strcspn(mem, s, t) =
                    (IF AtSet(mem, s, t) = {} THEN EndOf(mem, s) ELSE First(AtSet(mem, s, t))) - s
              /\ strspn(mem, s, t) = First(OffSet(mem, s, t)) - s
              /\ strstr(mem, s, t) = First(TextAt(mem, s, t))
  BY DEF SearchesFindTheirPlace, CharAt, AtSet, OffSet, Chars, TextAt
<1> QED BY StrchrRight, StrrchrRight, ScanRight, SpanRight, StrstrRight

-----------------------------------------------------------------------------
\* The copying loop.  After k turns the first k bytes have been copied.
Copied(m, to, from, k) ==
    [a \in Addr |-> IF a \in to..(to + k - 1) THEN m[a - to + from] ELSE m[a]]
CopyLoop(g, m, to, from, n) ==
    g = [k \in 0..n |-> IF k = 0 THEN m
                        ELSE [g[k - 1] EXCEPT ![to + k - 1] = g[k - 1][from + k - 1]]]
Copies(m, to, from, n) ==
    /\ m = [a \in Addr |-> m[a]] /\ to \in Addr /\ from \in Addr /\ n \in Nat
    /\ to + n - 1 <= MEM /\ from + n - 1 <= MEM /\ Apart(to, from, n)

LEMMA CopiedSteps ==
    ASSUME NEW m, NEW to, NEW from, NEW n, Copies(m, to, from, n)
    PROVE  /\ Copied(m, to, from, 0) = m
           /\ \A k \in 1..n : Copied(m, to, from, k) =
                 [Copied(m, to, from, k - 1) EXCEPT
                    ![to + k - 1] = Copied(m, to, from, k - 1)[from + k - 1]]
<1>1. /\ m = [a \in Addr |-> m[a]] /\ to \in Nat /\ from \in Nat /\ to > 0 /\ from > 0
      /\ n \in Nat /\ to + n - 1 <= MEM /\ from + n - 1 <= MEM
      /\ to + n <= from \/ from + n <= to
  BY MemAssumption DEF Copies, Addr, Apart
<1>2. Copied(m, to, from, 0) = m
  <2>1. \A a \in Addr : a \notin to..(to + 0 - 1)
    BY <1>1
  <2>2. Copied(m, to, from, 0) = [a \in Addr |-> m[a]]
    BY <2>1 DEF Copied
  <2> QED BY <1>1, <2>2
<1>3. ASSUME NEW k \in 1..n
      PROVE  Copied(m, to, from, k) =
                 [Copied(m, to, from, k - 1) EXCEPT
                    ![to + k - 1] = Copied(m, to, from, k - 1)[from + k - 1]]
  <2> DEFINE g == Copied(m, to, from, k - 1)
             h == Copied(m, to, from, k)
  <2>1. /\ to + k - 1 \in Addr /\ from + k - 1 \in Addr
        /\ from + k - 1 \notin to..(to + (k - 1) - 1)
    <3>1. /\ to + k - 1 \in Int /\ 1 <= to + k - 1 /\ to + k - 1 <= MEM
          /\ from + k - 1 \in Int /\ 1 <= from + k - 1 /\ from + k - 1 <= MEM
      BY <1>1, MemAssumption
    <3>2. from + k - 1 \notin to..(to + (k - 1) - 1)
      BY <1>1
    <3> QED BY <3>1, <3>2, InAddr
  <2>2. g[from + k - 1] = m[from + k - 1]
    BY <2>1 DEF Copied
  <2>3. g = [a \in Addr |-> g[a]] /\ h = [a \in Addr |-> h[a]]
    BY DEF Copied
  <2>4. ASSUME NEW a \in Addr
        PROVE  h[a] = IF a = to + k - 1 THEN m[from + k - 1] ELSE g[a]
    <3>1. CASE a = to + k - 1
      <4>1. a \in to..(to + k - 1) /\ a - to + from = from + k - 1
        BY <1>1, <3>1
      <4> QED BY <3>1, <4>1 DEF Copied
    <3>2. CASE a # to + k - 1
      <4>1. a \in to..(to + k - 1) <=> a \in to..(to + (k - 1) - 1)
        BY <1>1, <3>2 DEF Addr
      <4> QED BY <3>2, <4>1 DEF Copied
    <3> QED BY <3>1, <3>2
  <2> HIDE DEF g, h
  <2>5. h = [g EXCEPT ![to + k - 1] = g[from + k - 1]]
    BY <2>1, <2>2, <2>3, <2>4
  <2> QED BY <2>5 DEF g, h
<1> QED BY <1>2, <1>3

\* The loop copies the bytes, all of them, as they were.
LEMMA CopyUpCopies ==
    ASSUME NEW m, NEW to, NEW from, NEW n, Copies(m, to, from, n)
    PROVE  CopyUp(m, to, from, n) = Copied(m, to, from, n)
<1> DEFINE f == CHOOSE g : CopyLoop(g, m, to, from, n)
           h == [k \in 0..n |-> Copied(m, to, from, k)]
           D == {k \in 0..n : f[k] # Copied(m, to, from, k)}
<1>0. n \in Nat
  BY DEF Copies
<1>1. CopyUp(m, to, from, n) = f[n]
  BY DEF CopyUp, CopyLoop
<1>2. CopyLoop(h, m, to, from, n)
  <2>1. ASSUME NEW k \in 0..n
        PROVE  h[k] = IF k = 0 THEN m ELSE [h[k - 1] EXCEPT ![to + k - 1] = h[k - 1][from + k - 1]]
    <3>1. CASE k = 0
      BY <3>1, CopiedSteps
    <3>2. CASE k # 0
      <4>1. k \in 1..n /\ k - 1 \in 0..n
        BY <1>0, <3>2
      <4>2. h[k - 1] = Copied(m, to, from, k - 1) /\ h[k] = Copied(m, to, from, k)
        BY <4>1
      <4> HIDE DEF h
      <4>3. Copied(m, to, from, k) =
              [h[k - 1] EXCEPT ![to + k - 1] = h[k - 1][from + k - 1]]
        BY <4>1, <4>2, CopiedSteps
      <4> QED BY <3>2, <4>2, <4>3
    <3> QED BY <3>1, <3>2
  <2>2. h = [k \in 0..n |-> h[k]]
    OBVIOUS
  <2> HIDE DEF h
  <2> QED BY <2>1, <2>2 DEF CopyLoop
<1>3. CopyLoop(f, m, to, from, n)
  <2> HIDE DEF h
  <2> QED BY <1>2, Zenon
<1> HIDE DEF f
<1>4. ASSUME NEW k \in 0..n
      PROVE  f[k] = IF k = 0 THEN m ELSE [f[k - 1] EXCEPT ![to + k - 1] = f[k - 1][from + k - 1]]
  <2> DEFINE F(j) == IF j = 0 THEN m ELSE [f[j - 1] EXCEPT ![to + j - 1] = f[j - 1][from + j - 1]]
  <2>1. f = [j \in 0..n |-> F(j)]
    BY <1>3 DEF CopyLoop
  <2>2. f[k] = F(k)
    <3> HIDE DEF F
    <3> QED BY <2>1
  <2> QED BY <2>2
<1>5. D = {}
  <2>1. SUFFICES ASSUME D # {} PROVE FALSE
    OBVIOUS
  <2>2. PICK k \in D : \A j \in D : k <= j
    <3>1. D \subseteq Nat
      OBVIOUS
    <3> HIDE DEF D
    <3> QED BY <2>1, <3>1, LeastNat
  <2>3. k \in 0..n /\ f[k] # Copied(m, to, from, k)
    OBVIOUS
  <2>4. k # 0
    <3>1. Copied(m, to, from, 0) = m
      BY CopiedSteps
    <3>2. k = 0 => f[k] = m
      BY <1>4, <2>3
    <3> QED BY <2>3, <3>1, <3>2
  <2>5. k \in 1..n /\ k - 1 \in 0..n /\ ~(k <= k - 1)
    BY <1>0, <2>3, <2>4
  <2>6. f[k - 1] = Copied(m, to, from, k - 1)
    BY <2>2, <2>5
  <2>7. f[k] = [f[k - 1] EXCEPT ![to + k - 1] = f[k - 1][from + k - 1]]
    BY <1>4, <2>3, <2>4
  <2>8. Copied(m, to, from, k) =
              [Copied(m, to, from, k - 1) EXCEPT
                    ![to + k - 1] = Copied(m, to, from, k - 1)[from + k - 1]]
    BY <2>5, CopiedSteps
  <2> QED BY <2>3, <2>6, <2>7, <2>8
<1>6. n \in 0..n
  BY <1>0
<1> QED BY <1>1, <1>5, <1>6

-----------------------------------------------------------------------------
\* w is m with the k characters from b on at d, and a NUL behind them.
Wrote(w, m, d, b, k) ==
    \A x \in Addr : w[x] = IF x \in d..(d + k - 1) THEN m[x - d + b]
                           ELSE IF x = d + k THEN 0 ELSE m[x]

\* Where a string ends, and its text.
LEMMA TextIs ==
    ASSUME NEW w, NEW s \in Addr, NEW n \in Nat, s + n <= MEM, w[s + n] = 0,
           \A q \in s..(s + n - 1) : w[q] # 0
    PROVE  /\ IsString(w, s) /\ EndOf(w, s) = s + n
           /\ Text(w, s) = [k \in 1..n |-> w[s + k - 1]]
<1>1. s \in Nat /\ s + n \in s..MEM /\ s + n \in Nat
  BY MemAssumption DEF Addr
<1>2. IsString(w, s)
  BY <1>1 DEF IsString
<1>3. Ends(w, s, EndOf(w, s)) /\ Ends(w, s, s + n)
  <2>1. Ends(w, s, EndOf(w, s))
    BY <1>1, <1>2, EndOfString
  <2>2. Ends(w, s, s + n)
    BY <1>1 DEF Ends
  <2> QED BY <2>1, <2>2
<1>4. EndOf(w, s) = s + n
  BY <1>1, <1>3, EndsOnce
<1>5. (s + n) - s = n
  BY <1>1
<1> QED BY <1>2, <1>4, <1>5 DEF Text

\* Characters written behind the text at a, or in its place, are its new end.
Joins(w, m, a, d, b, k) ==
    /\ a \in Addr /\ d \in Nat /\ a <= d /\ \A q \in a..(d - 1) : m[q] # 0
    /\ b \in Strings(m) /\ k \in Nat /\ k <= EndOf(m, b) - b /\ d + k <= MEM
    /\ Wrote(w, m, d, b, k)
JoinIs(w, m, a, d, b, k) ==
    /\ IsString(w, a) /\ EndOf(w, a) = d + k
    /\ Text(w, a) = [j \in 1..(d - a + k) |-> IF j <= d - a THEN m[a + j - 1]
                                            ELSE m[b + j - 1 - (d - a)]]
    /\ \A x \in Addr \ (d..EndOf(w, a)) : w[x] = m[x]

LEMMA JoinedText ==
    ASSUME NEW m, NEW w, NEW a, NEW d, NEW b, NEW k, Joins(w, m, a, d, b, k)
    PROVE  JoinIs(w, m, a, d, b, k)
<1>0. /\ a \in Addr /\ d \in Nat /\ a <= d /\ \A q \in a..(d - 1) : m[q] # 0
      /\ b \in Strings(m) /\ k \in Nat /\ k <= EndOf(m, b) - b /\ d + k <= MEM
      /\ Wrote(w, m, d, b, k)
  BY DEF Joins
<1>1. a \in Nat /\ a > 0 /\ MEM \in Nat
  BY <1>0, MemAssumption DEF Addr
<1>2. /\ b \in Nat /\ EndOf(m, b) \in Nat
      /\ \A q \in b..(EndOf(m, b) - 1) : m[q] # 0
  BY <1>0, LengthOfString DEF Strings
<1>3. ASSUME NEW x \in Addr, x < d PROVE w[x] = m[x]
  <2>1. x \notin d..(d + k - 1) /\ x # d + k
    BY <1>0, <1>1, <1>3 DEF Addr
  <2> QED BY <1>0, <2>1 DEF Wrote
<1>4. ASSUME NEW j \in 0..(k - 1) PROVE w[d + j] = m[b + j] /\ m[b + j] # 0
  <2>1. d + j \in Addr /\ d + j \in d..(d + k - 1) /\ (d + j) - d + b = b + j
    BY <1>0, <1>1, <1>2 DEF Addr
  <2>2. b + j \in b..(EndOf(m, b) - 1)
    BY <1>0, <1>2
  <2> QED BY <1>0, <1>2, <2>1, <2>2 DEF Wrote
<1>5. w[d + k] = 0
  <2>1. d + k \in Addr /\ d + k \notin d..(d + k - 1)
    BY <1>0, <1>1 DEF Addr
  <2> QED BY <1>0, <2>1 DEF Wrote
<1> DEFINE n == d - a + k
<1>6. n \in Nat /\ a + n = d + k
  BY <1>0, <1>1
<1>7. ASSUME NEW q \in a..(a + n - 1) PROVE w[q] # 0
  <2>1. CASE q < d
    <3>1. q \in Addr /\ q \in a..(d - 1)
      BY <1>0, <1>1, <2>1 DEF Addr
    <3>2. w[q] = m[q] /\ m[q] # 0
      BY <1>0, <1>3, <2>1, <3>1
    <3> QED BY <3>2
  <2>2. CASE q >= d
    <3>1. q - d \in 0..(k - 1) /\ d + (q - d) = q
      BY <1>0, <1>1, <2>2
    <3> QED BY <1>4, <3>1
  <2> QED BY <1>0, <1>1, <2>1, <2>2
<1> HIDE DEF n
<1>8. IsString(w, a) /\ EndOf(w, a) = a + n /\ Text(w, a) = [j \in 1..n |-> w[a + j - 1]]
  BY <1>0, <1>5, <1>6, <1>7, TextIs
<1>9. ASSUME NEW j \in 1..n
      PROVE  w[a + j - 1] = IF j <= d - a THEN m[a + j - 1] ELSE m[b + j - 1 - (d - a)]
  <2>1. CASE j <= d - a
    <3>1. a + j - 1 \in Addr /\ a + j - 1 < d
      BY <1>0, <1>1, <1>6, <2>1 DEF Addr
    <3> QED BY <1>3, <2>1, <3>1
  <2>2. CASE ~(j <= d - a)
    <3>1. j - 1 - (d - a) \in 0..(k - 1)
      BY <1>0, <1>1, <1>6, <2>2 DEF n
    <3>2. a + j - 1 = d + (j - 1 - (d - a)) /\ b + j - 1 - (d - a) = b + (j - 1 - (d - a))
      BY <1>0, <1>1, <1>2
    <3> QED BY <1>4, <2>2, <3>1, <3>2
  <2> QED BY <2>1, <2>2
<1>10. ASSUME NEW x \in Addr \ (d..(d + k)) PROVE w[x] = m[x]
  <2>1. x \notin d..(d + k - 1) /\ x # d + k
    BY <1>0, <1>1 DEF Addr
  <2> QED BY <1>0, <2>1 DEF Wrote
<1> QED BY <1>6, <1>8, <1>9, <1>10 DEF JoinIs, n

\* A text copied with its NUL, or with one written behind it.
LEMMA CopyWithNul ==
    ASSUME NEW m, NEW to, NEW from, NEW k \in Nat, Copies(m, to, from, k + 1), m[from + k] = 0
    PROVE  /\ CopyUp(m, to, from, k + 1) = [x \in Addr |-> CopyUp(m, to, from, k + 1)[x]]
           /\ Wrote(CopyUp(m, to, from, k + 1), m, to, from, k)
<1>1. to \in Nat /\ to > 0 /\ MEM \in Nat /\ from \in Nat
  BY MemAssumption DEF Addr, Copies
<1>2. CopyUp(m, to, from, k + 1) = Copied(m, to, from, k + 1)
  BY CopyUpCopies
<1>3. Wrote(Copied(m, to, from, k + 1), m, to, from, k)
  <2> SUFFICES ASSUME NEW x \in Addr
               PROVE  Copied(m, to, from, k + 1)[x] =
                         IF x \in to..(to + k - 1) THEN m[x - to + from]
                         ELSE IF x = to + k THEN 0 ELSE m[x]
    BY DEF Wrote
  <2>0. x \in Int
    BY <1>1 DEF Addr
  <2>1. Copied(m, to, from, k + 1)[x] = IF x \in to..(to + (k + 1) - 1)
                                            THEN m[x - to + from] ELSE m[x]
    BY DEF Copied
  <2>2. x \in to..(to + (k + 1) - 1) <=> x \in to..(to + k - 1) \/ x = to + k
    BY <1>1, <2>0
  <2>3. x = to + k => x - to + from = from + k /\ x \notin to..(to + k - 1)
    BY <1>1
  <2> QED BY <2>1, <2>2, <2>3
<1>4. Copied(m, to, from, k + 1) = [x \in Addr |-> Copied(m, to, from, k + 1)[x]]
  BY DEF Copied
<1> QED BY <1>2, <1>3, <1>4

LEMMA CopyThenNul ==
    ASSUME NEW m, NEW to, NEW from, NEW k \in Nat, Copies(m, to, from, k), to + k <= MEM,
           NEW w, w = [CopyUp(m, to, from, k) EXCEPT ![to + k] = 0]
    PROVE  w = [x \in Addr |-> w[x]] /\ Wrote(w, m, to, from, k)
<1> DEFINE c == Copied(m, to, from, k)
<1>0. to \in Addr
  BY DEF Copies
<1>1. to \in Nat /\ to > 0 /\ MEM \in Nat
  BY <1>0, MemAssumption DEF Addr
<1>2. CopyUp(m, to, from, k) = c
  BY CopyUpCopies
<1>3. to + k \in Addr
  BY <1>1 DEF Addr
<1>4. ASSUME NEW x \in Addr PROVE w[x] = IF x = to + k THEN 0 ELSE c[x]
  BY <1>2, <1>3 DEF Copied
<1>5. ASSUME NEW x \in Addr PROVE c[x] = IF x \in to..(to + k - 1) THEN m[x - to + from] ELSE m[x]
  BY DEF Copied
<1>6. to + k \notin to..(to + k - 1)
  BY <1>1
<1>7. w = [x \in Addr |-> w[x]]
  BY <1>2 DEF Copied
<1> HIDE DEF c
<1>8. Wrote(w, m, to, from, k)
  BY <1>4, <1>5, <1>6 DEF Wrote
<1> QED BY <1>7, <1>8

\* What the copying functions write, and that their arguments fit.
Memory(m) == m = [x \in Addr |-> m[x]]
Length(m, s) == EndOf(m, s) - s

LEMMA LengthIs ==
    ASSUME NEW m, NEW s \in Strings(m)
    PROVE  /\ s \in Nat /\ s > 0 /\ s \in Addr /\ IsString(m, s)
           /\ Length(m, s) \in Nat /\ s + Length(m, s) = EndOf(m, s)
           /\ s + Length(m, s) <= MEM /\ m[s + Length(m, s)] = 0
           /\ EndOf(m, s) \in Nat /\ EndOf(m, s) \in Addr
           /\ \A q \in s..(EndOf(m, s) - 1) : m[q] # 0
           /\ strlen(m, s) = Length(m, s)
<1>1. s \in Addr /\ IsString(m, s)
  BY DEF Strings
<1>2. /\ s \in Nat /\ s > 0 /\ EndOf(m, s) \in Nat /\ s <= EndOf(m, s)
      /\ EndOf(m, s) <= MEM /\ m[EndOf(m, s)] = 0
      /\ \A q \in s..(EndOf(m, s) - 1) : m[q] # 0
      /\ strlen(m, s) = EndOf(m, s) - s
  BY <1>1, LengthOfString
<1>3. Length(m, s) \in Nat /\ s + Length(m, s) = EndOf(m, s) /\ strlen(m, s) = Length(m, s)
  BY <1>2 DEF Length
<1>4. EndOf(m, s) \in Addr
  BY <1>2, MemAssumption DEF Addr
<1> QED BY <1>1, <1>2, <1>3, <1>4

LEMMA StrcpyWrites ==
    ASSUME NEW m, Memory(m), NEW a \in Addr, NEW b \in Addr, Can_strcpy(m, a, b)
    PROVE  /\ b \in Strings(m) /\ a + Length(m, b) <= MEM
           /\ Memory(strcpy(m, a, b)) /\ Wrote(strcpy(m, a, b), m, a, b, Length(m, b))
<1> DEFINE n == Length(m, b)
<1>1. b \in Strings(m)
  BY DEF Can_strcpy, Strings
<1>2. b \in Nat /\ n \in Nat /\ b + n <= MEM /\ m[b + n] = 0 /\ strlen(m, b) = n
  BY <1>1, LengthIs
<1> HIDE DEF n
<1>3. a \in Nat /\ MEM \in Nat
  BY MemAssumption DEF Addr
<1>4. a + n <= MEM /\ Copies(m, a, b, n + 1)
  <2>1. CanCopy(m, a, b, n + 1)
    BY <1>2 DEF Can_strcpy
  <2> QED BY <1>2, <1>3, <2>1 DEF CanCopy, Fits, Copies, Memory
<1>5. strcpy(m, a, b) = CopyUp(m, a, b, n + 1)
  BY <1>2 DEF strcpy
<1> QED BY <1>1, <1>2, <1>4, <1>5, CopyWithNul DEF Memory, n

LEMMA StrcatWrites ==
    ASSUME NEW m, Memory(m), NEW a \in Addr, NEW b \in Addr, Can_strcat(m, a, b)
    PROVE  /\ a \in Strings(m) /\ b \in Strings(m) /\ EndOf(m, a) + Length(m, b) <= MEM
           /\ Memory(strcat(m, a, b))
           /\ Wrote(strcat(m, a, b), m, EndOf(m, a), b, Length(m, b))
<1> DEFINE n == Length(m, b)
           d == EndOf(m, a)
<1>1. a \in Strings(m) /\ b \in Strings(m)
  BY DEF Can_strcat, Strings
<1>2. b \in Nat /\ n \in Nat /\ b + n <= MEM /\ m[b + n] = 0 /\ strlen(m, b) = n
  BY <1>1, LengthIs
<1>3. d \in Nat /\ d \in Addr /\ a + strlen(m, a) = d /\ MEM \in Nat
  BY <1>1, LengthIs, MemAssumption
<1> HIDE DEF n, d
<1>4. d + n <= MEM /\ Copies(m, d, b, n + 1)
  <2>1. CanCopy(m, d, b, n + 1)
    BY <1>2, <1>3 DEF Can_strcat
  <2> QED BY <1>2, <1>3, <2>1 DEF CanCopy, Fits, Copies, Memory
<1>5. strcat(m, a, b) = CopyUp(m, d, b, n + 1)
  BY <1>2, <1>3 DEF strcat
<1> QED BY <1>1, <1>2, <1>4, <1>5, CopyWithNul DEF Memory, n, d

LEMMA StrncatWrites ==
    ASSUME NEW m, Memory(m), NEW a \in Addr, NEW b \in Addr, NEW c \in Nat,
           Can_strncat(m, a, b, c)
    PROVE  LET k == IF c < Length(m, b) THEN c ELSE Length(m, b)
           IN  /\ a \in Strings(m) /\ b \in Strings(m)
               /\ k \in Nat /\ k <= Length(m, b) /\ EndOf(m, a) + k <= MEM
               /\ Memory(strncat(m, a, b, c))
               /\ Wrote(strncat(m, a, b, c), m, EndOf(m, a), b, k)
<1> DEFINE n == Length(m, b)
           d == EndOf(m, a)
           k == IF c < n THEN c ELSE n
<1>1. a \in Strings(m) /\ b \in Strings(m)
  BY DEF Can_strncat, Strings
<1>2. b \in Nat /\ n \in Nat /\ b + n <= MEM /\ strlen(m, b) = n
  BY <1>1, LengthIs
<1>3. d \in Nat /\ d \in Addr /\ a + strlen(m, a) = d /\ MEM \in Nat /\ m[d] = 0
  BY <1>1, LengthIs, MemAssumption
<1> HIDE DEF n, d
<1>4. k \in Nat /\ k <= n
  BY <1>2
<1>5. CanCopy(m, d, b, 1 + k)
  BY <1>2, <1>3 DEF Can_strncat
<1> HIDE DEF k
<1>6. d + k <= MEM /\ Copies(m, d, b, k)
  BY <1>2, <1>3, <1>4, <1>5 DEF CanCopy, Fits, Copies, Memory, Apart
<1>7. strncat(m, a, b, c) = IF c = 0 THEN m ELSE [CopyUp(m, d, b, k) EXCEPT ![d + k] = 0]
  BY <1>2, <1>3 DEF strncat, k
<1>8. CASE c = 0
  <2>1. k = 0
    BY <1>2, <1>8 DEF k
  <2>2. Wrote(m, m, d, b, 0)
    <3> SUFFICES ASSUME NEW x \in Addr PROVE x \notin d..(d + 0 - 1) /\ (x = d + 0 => m[x] = 0)
      BY DEF Wrote
    <3> QED BY <1>3
  <2> QED BY <1>1, <1>4, <1>6, <1>7, <1>8, <2>1, <2>2 DEF n, d, k
<1>9. CASE c # 0
  <2>1. /\ Memory(strncat(m, a, b, c))
        /\ Wrote(strncat(m, a, b, c), m, d, b, k)
    BY <1>4, <1>6, <1>7, <1>9, CopyThenNul DEF Memory
  <2> QED BY <1>1, <1>4, <1>6, <2>1 DEF n, d, k
<1> QED BY <1>8, <1>9

LEMMA CopyRight ==
    ASSUME mem \in [Addr -> Nat]
    PROVE  CopyLeavesTheText
<1>0. Memory(mem)
  BY DEF Memory
<1> SUFFICES ASSUME NEW a \in Addr, NEW b \in Addr
             PROVE
        /\ Can_strcpy(mem, a, b) => Leaves(strcpy(mem, a, b), a, Text(mem, b), a)
        /\ Can_strcat(mem, a, b) =>
              Leaves(strcat(mem, a, b), a, Joined(a, <<Length(mem, b), b>>), EndOf(mem, a))
        /\ \A n \in 0..MEM : Can_strncat(mem, a, b, n) =>
              Leaves(strncat(mem, a, b, n), a,
                     Joined(a, <<IF n < Length(mem, b) THEN n ELSE Length(mem, b), b>>),
                     EndOf(mem, a))
  BY DEF CopyLeavesTheText, Length
<1>1. a \in Nat /\ MEM \in Nat
  BY MemAssumption DEF Addr
<1>2. ASSUME NEW w, NEW k \in Nat, a \in Strings(mem), b \in Strings(mem),
             k <= Length(mem, b), EndOf(mem, a) + k <= MEM, Wrote(w, mem, EndOf(mem, a), b, k)
      PROVE  Leaves(w, a, Joined(a, <<k, b>>), EndOf(mem, a))
  <2> DEFINE d == EndOf(mem, a)
  <2>1. d \in Nat /\ a <= d /\ \A q \in a..(d - 1) : mem[q] # 0
    BY <1>2, LengthOfString DEF Strings
  <2>2. k <= EndOf(mem, b) - b
    BY <1>2 DEF Length
  <2> HIDE DEF d
  <2>3. JoinIs(w, mem, a, d, b, k)
    <3>1. Joins(w, mem, a, d, b, k)
      BY <1>2, <2>1, <2>2 DEF d, Joins
    <3> QED BY <3>1, JoinedText, Zenon
  <2>4. Joined(a, <<k, b>>) = [j \in 1..(d - a + k) |-> IF j <= d - a THEN mem[a + j - 1]
                                                      ELSE mem[b + j - 1 - (d - a)]]
    BY DEF Joined, d
  <2> QED BY <2>3, <2>4 DEF Leaves, JoinIs, d
<1>3. ASSUME Can_strcpy(mem, a, b)
      PROVE  Leaves(strcpy(mem, a, b), a, Text(mem, b), a)
  <2> DEFINE w == strcpy(mem, a, b)
             k == Length(mem, b)
  <2>1. b \in Strings(mem) /\ a + k <= MEM /\ Wrote(w, mem, a, b, k)
    BY <1>0, <1>3, StrcpyWrites
  <2>2. b \in Nat /\ k \in Nat /\ k <= EndOf(mem, b) - b /\ k = EndOf(mem, b) - b
    BY <2>1, LengthIs DEF Length
  <2> HIDE DEF w, k
  <2>3. \A q \in a..(a - 1) : mem[q] # 0
    BY <1>1
  <2>4. JoinIs(w, mem, a, a, b, k)
    <3>1. Joins(w, mem, a, a, b, k)
      BY <1>1, <2>1, <2>2, <2>3 DEF Joins
    <3> QED BY <3>1, JoinedText, Zenon
  <2>5. Text(mem, b) = [j \in 1..k |-> mem[b + j - 1]]
    BY <2>2 DEF Text
  <2>6. a - a + k = k /\ \A j \in 1..k : ~(j <= a - a) /\ b + j - 1 - (a - a) = b + j - 1
    BY <1>1, <2>2
  <2>7. Text(w, a) = Text(mem, b)
    BY <2>4, <2>5, <2>6 DEF JoinIs
  <2> QED BY <2>4, <2>7 DEF Leaves, JoinIs, w
<1>4. ASSUME Can_strcat(mem, a, b)
      PROVE  Leaves(strcat(mem, a, b), a, Joined(a, <<Length(mem, b), b>>), EndOf(mem, a))
  <2>1. /\ a \in Strings(mem) /\ b \in Strings(mem) /\ EndOf(mem, a) + Length(mem, b) <= MEM
        /\ Wrote(strcat(mem, a, b), mem, EndOf(mem, a), b, Length(mem, b))
    BY <1>0, <1>4, StrcatWrites
  <2>2. Length(mem, b) \in Nat /\ Length(mem, b) <= Length(mem, b)
    BY <2>1, LengthIs
  <2> QED BY <1>2, <2>1, <2>2
<1>5. ASSUME NEW n \in 0..MEM, Can_strncat(mem, a, b, n)
      PROVE  Leaves(strncat(mem, a, b, n), a,
                     Joined(a, <<IF n < Length(mem, b) THEN n ELSE Length(mem, b), b>>),
                     EndOf(mem, a))
  <2> DEFINE k == IF n < Length(mem, b) THEN n ELSE Length(mem, b)
  <2>1. /\ a \in Strings(mem) /\ b \in Strings(mem)
        /\ k \in Nat /\ k <= Length(mem, b) /\ EndOf(mem, a) + k <= MEM
        /\ Wrote(strncat(mem, a, b, n), mem, EndOf(mem, a), b, k)
    <3>1. n \in Nat
      BY <1>1
    <3> QED BY <1>0, <1>5, <3>1, StrncatWrites
  <2> HIDE DEF k
  <2>2. Leaves(strncat(mem, a, b, n), a, Joined(a, <<k, b>>), EndOf(mem, a))
    BY <1>2, <2>1
  <2> QED BY <2>2 DEF k
<1> QED BY <1>3, <1>4, <1>5

\* strncpy, with and without the source's NUL among the first n.
LEMMA StrncpyWrites ==
    ASSUME NEW m, Memory(m), NEW a \in Addr, NEW b \in Addr, NEW n \in Nat,
           Can_strncpy(m, a, b, n)
    PROVE  /\ b \in Strings(m)
           /\ \A x \in Addr : strncpy(m, a, b, n)[x] =
                 IF x < a THEN m[x]
                 ELSE IF x < a + n
                        THEN IF x - a < Length(m, b) THEN m[x - a + b] ELSE 0
                        ELSE IF Length(m, b) < n THEN m[x] ELSE 0
<1> DEFINE len == Length(m, b)
<1>1. b \in Strings(m)
  BY DEF Can_strncpy, Strings
<1>2. /\ b \in Nat /\ len \in Nat /\ b + len <= MEM /\ m[b + len] = 0 /\ strlen(m, b) = len
      /\ IsString(m, b)
  BY <1>1, LengthIs
<1> HIDE DEF len
<1>3. a \in Nat /\ MEM \in Nat /\ a > 0 /\ a <= MEM
  BY MemAssumption DEF Addr
<1>4. a + n - 1 <= MEM /\ Apart(a, b, n)
  BY DEF Can_strncpy, CanCopy, Fits
<1>5. ASSUME NEW x \in Addr PROVE x \in Nat /\ x <= MEM
  BY <1>3 DEF Addr
<1>6. CASE len < n
  <2> DEFINE w == strcpy(m, a, b)
  <2>1. Can_strcpy(m, a, b)
    BY <1>2, <1>3, <1>4, <1>6 DEF Can_strcpy, CanCopy, Fits, Apart
  <2>2. Wrote(w, m, a, b, len)
    BY <2>1, StrcpyWrites DEF len
  <2> HIDE DEF w
  <2>3. strncpy(m, a, b, n) = memset(w, a + len + 1, 0, n - len - 1)
    BY <1>2, <1>6 DEF strncpy, w
  <2>4. ASSUME NEW x \in Addr
        PROVE  memset(w, a + len + 1, 0, n - len - 1)[x] =
                 IF x < a THEN m[x]
                 ELSE IF x < a + n THEN IF x - a < len THEN m[x - a + b] ELSE 0 ELSE m[x]
    <3>1. memset(w, a + len + 1, 0, n - len - 1)[x] =
            IF x \in (a + len + 1)..((a + len + 1) + (n - len - 1) - 1) THEN 0 ELSE w[x]
      BY DEF memset
    <3>2. x \in (a + len + 1)..((a + len + 1) + (n - len - 1) - 1) <=> x > a + len /\ x < a + n
      BY <1>2, <1>3, <1>5
    <3>3. w[x] = IF x \in a..(a + len - 1) THEN m[x - a + b] ELSE IF x = a + len THEN 0 ELSE m[x]
      BY <2>2 DEF Wrote
    <3>4. x \in a..(a + len - 1) <=> x >= a /\ x - a < len
      BY <1>2, <1>3, <1>5
    <3> QED BY <1>2, <1>3, <1>5, <1>6, <3>1, <3>2, <3>3, <3>4
  <2> QED BY <1>1, <1>6, <2>3, <2>4 DEF len
<1>7. CASE ~(len < n)
  <2> DEFINE w == Copied(m, a, b, n)
  <2>1. Copies(m, a, b, n)
    BY <1>2, <1>3, <1>4, <1>7 DEF Copies, Memory
  <2>2. CopyUp(m, a, b, n) = w
    BY <2>1, CopyUpCopies
  <2>3. strncpy(m, a, b, n) = memset(w, a + n, 0, MEM)
    BY <1>2, <1>7, <2>2 DEF strncpy
  <2>4. ASSUME NEW x \in Addr
        PROVE  memset(w, a + n, 0, MEM)[x] =
                 IF x < a THEN m[x]
                 ELSE IF x < a + n THEN IF x - a < len THEN m[x - a + b] ELSE 0 ELSE 0
    <3>1. memset(w, a + n, 0, MEM)[x] = IF x \in (a + n)..((a + n) + MEM - 1) THEN 0 ELSE w[x]
      BY DEF memset
    <3>2. x \in (a + n)..((a + n) + MEM - 1) <=> x >= a + n
      BY <1>3, <1>5
    <3>3. w[x] = IF x \in a..(a + n - 1) THEN m[x - a + b] ELSE m[x]
      BY DEF Copied
    <3>4. x \in a..(a + n - 1) <=> x >= a /\ x < a + n
      BY <1>3, <1>5
    <3>5. x < a + n => x - a < len
      BY <1>2, <1>3, <1>5, <1>7
    <3> HIDE DEF w
    <3> QED BY <1>3, <1>5, <3>1, <3>2, <3>3, <3>4, <3>5
  <2> HIDE DEF w
  <2> QED BY <1>1, <1>7, <2>3, <2>4 DEF len
<1> QED BY <1>2, <1>6, <1>7

LEMMA StrncpyRight ==
    ASSUME mem \in [Addr -> Nat]
    PROVE  StrncpyNeedsTheNul
<1> SUFFICES ASSUME NEW a \in Addr, NEW b \in Addr, NEW n \in 0..MEM, Can_strncpy(mem, a, b, n)
             PROVE  LET m == strncpy(mem, a, b, n)  len == Length(mem, b)
        IN  /\ \A k \in 0..(n - 1) : m[a + k] = IF k < len THEN mem[b + k] ELSE 0
            /\ \A p \in Addr : p < a => m[p] = mem[p]
            /\ \A p \in Addr : p >= a + n => m[p] = IF len < n THEN mem[p] ELSE 0
  BY DEF StrncpyNeedsTheNul, Length
<1> DEFINE m == strncpy(mem, a, b, n)
           len == Length(mem, b)
<1>1. a \in Nat /\ b \in Nat /\ n \in Nat /\ MEM \in Nat /\ a > 0
  BY MemAssumption DEF Addr
<1>2. a + n - 1 <= MEM
  BY DEF Can_strncpy, CanCopy, Fits
<1>3. b \in Strings(mem) /\ \A x \in Addr : m[x] =
                 IF x < a THEN mem[x]
                 ELSE IF x < a + n
                        THEN IF x - a < len THEN mem[x - a + b] ELSE 0
                        ELSE IF len < n THEN mem[x] ELSE 0
  <2>1. Memory(mem)
    BY DEF Memory
  <2> QED BY <1>1, <2>1, StrncpyWrites
<1>4. len \in Nat
  BY <1>3, LengthIs
<1> HIDE DEF m, len
<1>5. ASSUME NEW k \in 0..(n - 1) PROVE m[a + k] = IF k < len THEN mem[b + k] ELSE 0
  <2>1. a + k \in Addr /\ ~(a + k < a) /\ a + k < a + n /\ (a + k) - a = k /\ k + b = b + k
    BY <1>1, <1>2 DEF Addr
  <2> QED BY <1>3, <2>1
<1>6. ASSUME NEW p \in Addr PROVE /\ p < a => m[p] = mem[p]
                                  /\ p >= a + n => m[p] = IF len < n THEN mem[p] ELSE 0
  <2>1. p \in Nat
    BY <1>1 DEF Addr
  <2>2. p >= a + n => ~(p < a) /\ ~(p < a + n)
    BY <1>1, <2>1
  <2> QED BY <1>3, <2>2
<1> QED BY <1>5, <1>6 DEF m, len

-----------------------------------------------------------------------------
\* Every call leaves characters.
LEMMA WroteChars ==
    ASSUME NEW m \in [Addr -> Char], NEW w, NEW d \in Nat, NEW b \in Strings(m), NEW k \in Nat,
           k <= Length(m, b), Wrote(w, m, d, b, k)
    PROVE  \A x \in Addr : w[x] \in Char
<1> SUFFICES ASSUME NEW x \in Addr PROVE w[x] \in Char
  OBVIOUS
<1>1. b \in Nat /\ b > 0 /\ Length(m, b) \in Nat /\ b + Length(m, b) <= MEM
  BY LengthIs
<1>2. w[x] = IF x \in d..(d + k - 1) THEN m[x - d + b] ELSE IF x = d + k THEN 0 ELSE m[x]
  BY DEF Wrote
<1>3. x \in d..(d + k - 1) => x - d + b \in Addr
  BY <1>1, MemAssumption DEF Addr
<1> QED BY <1>2, <1>3, CharAssumption

LEMMA LeaveChars ==
    ASSUME TypeOK, NEW w, \A x \in Addr : w[x] \in Char, Leave(w)
    PROVE  TypeOK'
BY DEF TypeOK, Leave

LEMMA StringTypes == ASSUME TypeOK, [Next]_vars, MoveInv PROVE TypeOK'
<1>1. mem \in [Addr -> Char] /\ Memory(mem)
  BY DEF TypeOK, Memory
<1>2. CASE StrCpy
  <2>1. PICK a, b \in Addr : Can_strcpy(mem, a, b) /\ Leave(strcpy(mem, a, b))
    BY <1>2 DEF StrCpy
  <2>2. b \in Strings(mem) /\ Wrote(strcpy(mem, a, b), mem, a, b, Length(mem, b))
    BY <1>1, <2>1, StrcpyWrites
  <2>3. Length(mem, b) \in Nat /\ Length(mem, b) <= Length(mem, b) /\ a \in Nat
    BY <2>2, LengthIs, MemAssumption DEF Addr
  <2>4. \A x \in Addr : strcpy(mem, a, b)[x] \in Char
    BY <1>1, <2>2, <2>3, WroteChars
  <2> QED BY <2>1, <2>4, LeaveChars
<1>3. CASE StrCat
  <2>1. PICK a, b \in Addr : Can_strcat(mem, a, b) /\ Leave(strcat(mem, a, b))
    BY <1>3 DEF StrCat
  <2>2. /\ a \in Strings(mem) /\ b \in Strings(mem)
        /\ Wrote(strcat(mem, a, b), mem, EndOf(mem, a), b, Length(mem, b))
    BY <1>1, <2>1, StrcatWrites
  <2>3. /\ Length(mem, b) \in Nat /\ Length(mem, b) <= Length(mem, b) /\ EndOf(mem, a) \in Nat
    BY <2>2, LengthIs
  <2>4. \A x \in Addr : strcat(mem, a, b)[x] \in Char
    BY <1>1, <2>2, <2>3, WroteChars
  <2> QED BY <2>1, <2>4, LeaveChars
<1>4. CASE StrNCat
  <2>1. PICK a, b \in Addr, n \in 0..MEM :
           Can_strncat(mem, a, b, n) /\ Leave(strncat(mem, a, b, n))
    BY <1>4 DEF StrNCat
  <2> DEFINE k == IF n < Length(mem, b) THEN n ELSE Length(mem, b)
  <2>2. /\ a \in Strings(mem) /\ b \in Strings(mem)
        /\ k \in Nat /\ k <= Length(mem, b)
        /\ Wrote(strncat(mem, a, b, n), mem, EndOf(mem, a), b, k)
    <3>1. n \in Nat
      BY MemAssumption
    <3> QED BY <1>1, <2>1, <3>1, StrncatWrites
  <2> HIDE DEF k
  <2>3. EndOf(mem, a) \in Nat
    BY <2>2, LengthIs
  <2>4. \A x \in Addr : strncat(mem, a, b, n)[x] \in Char
    BY <1>1, <2>2, <2>3, WroteChars
  <2> QED BY <2>1, <2>4, LeaveChars
<1>5. CASE StrNCpy
  <2>1. PICK a, b \in Addr, n \in 0..MEM :
           Can_strncpy(mem, a, b, n) /\ Leave(strncpy(mem, a, b, n))
    BY <1>5 DEF StrNCpy
  <2>2. n \in Nat /\ a \in Nat /\ MEM \in Nat
    BY MemAssumption DEF Addr
  <2>3. b \in Strings(mem) /\ \A x \in Addr : strncpy(mem, a, b, n)[x] =
                 IF x < a THEN mem[x]
                 ELSE IF x < a + n
                        THEN IF x - a < Length(mem, b) THEN mem[x - a + b] ELSE 0
                        ELSE IF Length(mem, b) < n THEN mem[x] ELSE 0
    BY <1>1, <2>1, <2>2, StrncpyWrites
  <2>4. /\ b \in Nat /\ b > 0 /\ Length(mem, b) \in Nat /\ b + Length(mem, b) <= MEM
    BY <2>3, LengthIs
  <2>5. ASSUME NEW x \in Addr PROVE strncpy(mem, a, b, n)[x] \in Char
    <3>1. ~(x < a) /\ x - a < Length(mem, b) => x - a + b \in Addr
      BY <2>2, <2>4 DEF Addr
    <3>2. ~(x < a) /\ x - a < Length(mem, b) => mem[x - a + b] \in Char
      BY <1>1, <3>1
    <3>3. mem[x] \in Char /\ 0 \in Char
      BY <1>1, CharAssumption
    <3> QED BY <2>3, <3>2, <3>3
  <2> QED BY <2>1, <2>5, LeaveChars
<1>6. CASE MemSet
  <2>1. PICK a \in Addr, n \in 0..MEM, c \in Char : Leave(memset(mem, a, c, n))
    BY <1>6 DEF MemSet
  <2>2. \A x \in Addr : memset(mem, a, c, n)[x] \in Char
    BY <1>1 DEF memset
  <2> QED BY <2>1, <2>2, LeaveChars
<1>7. CASE \E d, s \in Addr, n \in 0..MEM : memmove(d, s, n)
  BY <1>7, MemAssumption DEF TypeOK, memmove, Upwards
<1>8. CASE move_up
  <2>1. RegionsFit /\ moving
    BY <1>8 DEF MoveInv, move_up
  <2>2. src + i \in Addr /\ i + 1 \in 0..count
    BY <1>8, <2>1, MemAssumption DEF RegionsFit, Fits, Addr, move_up
  <2> QED BY <1>8, <2>2 DEF TypeOK, move_up
<1>9. CASE move_down
  <2>1. RegionsFit /\ moving
    BY <1>9 DEF MoveInv, move_down
  <2>2. src + i - 1 \in Addr /\ i - 1 \in 0..count
    BY <1>9, <2>1, MemAssumption DEF RegionsFit, Fits, Addr, move_down
  <2> QED BY <1>9, <2>2 DEF TypeOK, move_down
<1>10. CASE move_return
  <2>1. 1 \in Addr /\ 0 \in 0..MEM /\ 0 \in 0..0
    BY MemAssumption DEF Addr
  <2> QED BY <1>10, <2>1 DEF TypeOK, move_return
<1>11. CASE UNCHANGED vars
  BY <1>11 DEF TypeOK, vars
<1> QED BY <1>2, <1>3, <1>4, <1>5, <1>6, <1>7, <1>8, <1>9, <1>10, <1>11 DEF Next

\* Whatever is called, the memory holds characters, and memmove's index stays
\* within its count (memmove.c:18-23).
THEOREM StringsTypeCorrect == Spec => []TypeOK
<1>1. Init => TypeOK
  <2>1. 1 \in Addr /\ 0 \in 0..MEM /\ 0 \in 0..0
    BY MemAssumption DEF Addr
  <2> QED BY <2>1 DEF Init, TypeOK
<1> QED BY <1>1, InitMove, StepMove, StringTypes, PTL DEF Spec

LEMMA CharsAreNat == ASSUME TypeOK PROVE mem \in [Addr -> Nat]
BY CharAssumption DEF TypeOK

\* On every memory, whatever its size and its characters, strcmp and strncmp order
\* any two texts lexicographically, and strchr, strrchr, strspn, strcspn, strpbrk
\* and strstr find the first place, the last one, or none (strcmp.c:50,
\* strncmp.c:21, strchr.c:24, strrchr.c:24, strspn.c:46, strcspn.c:49,
\* strpbrk.c:46, strstr.c:21).
THEOREM ReadersRight == Spec => []ReadersAreRight
<1>1. TypeOK => ReadersAreRight
  <2> SUFFICES ASSUME TypeOK PROVE ComparesLexically /\ SearchesFindTheirPlace
    BY DEF ReadersAreRight
  <2>1. mem \in [Addr -> Nat]
    BY CharsAreNat
  <2>2. ComparesLexically
    BY <2>1, CompareRight DEF ComparesLexically
  <2> QED BY <2>1, <2>2, SearchRight
<1> QED BY <1>1, StringsTypeCorrect, PTL

\* For every call the C standard allows, strcpy, strcat and strncat leave the text
\* asked for and touch no byte but its own; strncpy does if the source's NUL is
\* among the first count characters, and clears the rest of memory if it is not
\* (strcpy.c:45, strcat.c:36, strncat.c:50, strncpy.c:51-54).
THEOREM CopiesRight == Spec => []CopiesLeaveTheText
<1>1. TypeOK => CopiesLeaveTheText
  BY CharsAreNat, CopyRight, StrncpyRight DEF CopiesLeaveTheText
<1> QED BY <1>1, StringsTypeCorrect, PTL

-----------------------------------------------------------------------------
(* printf: what is on the console, in the buffer and still to be put is    *)
(* the whole text.  Concat and Shown are recursive functions on 0..n: a    *)
(* solution of the recursion is built step by step (CountExists), and two  *)
(* solutions agree, for else there would be a first place where they       *)
(* differ (CountOnce).                                                     *)

\* g counts up to n from z, one step at a time.
IsCount(g, n, z, step) == g = [k \in 0..n |-> IF k = 0 THEN z ELSE step[<<g[k - 1], k>>]]

\* Such a function exists if the steps stay in a set.
LEMMA CountExists ==
    ASSUME NEW S, NEW z \in S, NEW n \in Nat, NEW step,
           \A x \in S, k \in 1..n : step[<<x, k>>] \in S
    PROVE  \E g \in [0..n -> S] : IsCount(g, n, z, step)
<1> DEFINE D == {j \in 0..n : ~ \E g \in [0..j -> S] : IsCount(g, j, z, step)}
<1>1. SUFFICES ASSUME D # {} PROVE FALSE
  <2>1. n \in 0..n
    OBVIOUS
  <2> QED BY <1>1, <2>1
<1>2. PICK j \in D : \A b \in D : j <= b
  <2>1. D \subseteq Nat
    OBVIOUS
  <2> HIDE DEF D
  <2> QED BY <1>1, <2>1, LeastNat
<1>3. j \in 0..n /\ ~ \E g \in [0..j -> S] : IsCount(g, j, z, step)
  OBVIOUS
<1>4. j # 0
  <2> SUFFICES ASSUME j = 0 PROVE FALSE
    OBVIOUS
  <2> DEFINE g == [k \in 0..0 |-> z]
  <2>1. g \in [0..0 -> S]
    OBVIOUS
  <2>2. IsCount(g, 0, z, step)
    <3>1. \A k \in 0..0 : k = 0
      OBVIOUS
    <3> QED BY <3>1 DEF IsCount
  <2> QED BY <1>3, <2>1, <2>2
<1>5. j - 1 \in 0..n /\ j \in 1..n /\ ~(j <= j - 1)
  BY <1>3, <1>4
<1>6. PICK h \in [0..(j - 1) -> S] : IsCount(h, j - 1, z, step)
  <2>1. j - 1 \notin D
    BY <1>2, <1>5
  <2> QED BY <1>5, <2>1
<1> DEFINE g == [k \in 0..j |-> IF k = j THEN step[<<h[j - 1], j>>] ELSE h[k]]
<1>7. g \in [0..j -> S]
  <2>1. j - 1 \in 0..(j - 1)
    BY <1>5
  <2>2. step[<<h[j - 1], j>>] \in S
    BY <1>5, <2>1
  <2>3. \A k \in 0..j : k # j => k \in 0..(j - 1)
    BY <1>5
  <2> QED BY <2>2, <2>3
<1>8. ASSUME NEW k \in 0..j PROVE g[k] = IF k = 0 THEN z ELSE step[<<g[k - 1], k>>]
  <2>1. CASE k = j
    <3>1. g[k] = step[<<h[j - 1], j>>] /\ k # 0
      BY <1>4, <2>1
    <3>2. g[k - 1] = h[j - 1]
      BY <1>5, <2>1
    <3> HIDE DEF g
    <3> QED BY <2>1, <3>1, <3>2
  <2>2. CASE k # j
    <3>1. k \in 0..(j - 1)
      BY <1>5, <2>2
    <3>2. h[k] = IF k = 0 THEN z ELSE step[<<h[k - 1], k>>]
      <4> DEFINE F(m) == IF m = 0 THEN z ELSE step[<<h[m - 1], m>>]
      <4>1. h = [m \in 0..(j - 1) |-> F(m)]
        BY <1>6 DEF IsCount
      <4> HIDE DEF F
      <4>2. h[k] = F(k)
        BY <3>1, <4>1
      <4> QED BY <4>2 DEF F
    <3>3. g[k] = h[k]
      BY <2>2
    <3>4. k # 0 => g[k - 1] = h[k - 1]
      BY <1>5, <3>1
    <3> HIDE DEF g
    <3> QED BY <3>2, <3>3, <3>4
  <2> QED BY <2>1, <2>2
<1>9. g = [k \in 0..j |-> g[k]]
  OBVIOUS
<1>10. IsCount(g, j, z, step)
  <2> HIDE DEF g
  <2> QED BY <1>8, <1>9 DEF IsCount
<1> QED BY <1>3, <1>7, <1>10

\* Each value of it follows from the one before.
IsStepwise(g, n, z, step) == g[0] = z /\ \A k \in 1..n : g[k] = step[<<g[k - 1], k>>]

LEMMA CountSteps ==
    \A g, z, step : \A n \in Nat : IsCount(g, n, z, step) => IsStepwise(g, n, z, step)
<1> SUFFICES ASSUME NEW g, NEW z, NEW step, NEW n \in Nat, IsCount(g, n, z, step)
             PROVE  IsStepwise(g, n, z, step)
  OBVIOUS
<1> DEFINE F(k) == IF k = 0 THEN z ELSE step[<<g[k - 1], k>>]
<1>1. g = [k \in 0..n |-> F(k)]
  BY DEF IsCount
<1> HIDE DEF F
<1>2. \A k \in 0..n : g[k] = F(k)
  BY <1>1
<1>3. F(0) = z /\ \A k \in 1..n : F(k) = step[<<g[k - 1], k>>]
  BY DEF F
<1>4. 0 \in 0..n /\ \A k \in 1..n : k \in 0..n
  OBVIOUS
<1> QED BY <1>2, <1>3, <1>4 DEF IsStepwise

\* Two such functions agree as far as their steps do.
Alike(f, g, n) == f[0] = g[0] /\ \A k \in 1..n : f[k - 1] = g[k - 1] => f[k] = g[k]

LEMMA CountOnce ==
    \A f, g : \A n \in Nat : Alike(f, g, n) => \A k \in 0..n : f[k] = g[k]
<1> SUFFICES ASSUME NEW n \in Nat, NEW f, NEW g, Alike(f, g, n)
             PROVE  \A k \in 0..n : f[k] = g[k]
  OBVIOUS
<1> DEFINE D == {k \in 0..n : f[k] # g[k]}
<1>1. SUFFICES ASSUME D # {} PROVE FALSE
  OBVIOUS
<1>2. PICK k \in D : \A j \in D : k <= j
  <2>1. D \subseteq Nat
    OBVIOUS
  <2> HIDE DEF D
  <2> QED BY <1>1, <2>1, LeastNat
<1>3. k \in 0..n /\ f[k] # g[k] /\ k # 0
  BY DEF Alike
<1>4. k \in 1..n /\ k - 1 \in 0..n /\ ~(k <= k - 1)
  BY <1>3
<1>5. f[k - 1] = g[k - 1]
  BY <1>2, <1>4
<1> QED BY <1>3, <1>4, <1>5 DEF Alike

-----------------------------------------------------------------------------
\* Shown of the first k characters of a text.
ShownLoop(f, text) == f = [k \in 0..Len(text) |->
                             IF k = 0 THEN <<>>
                             ELSE IF text[k] = NUL THEN f[k - 1] ELSE Append(f[k - 1], text[k])]
ShownTo(text) == CHOOSE f : ShownLoop(f, text)

LEMMA ShownSteps ==
    ASSUME NEW T \in Seq(Nat)
    PROVE  /\ Shown(T) = ShownTo(T)[Len(T)]
           /\ ShownTo(T)[0] = <<>>
           /\ \A k \in 1..Len(T) : ShownTo(T)[k] = IF T[k] = NUL THEN ShownTo(T)[k - 1]
                                                  ELSE Append(ShownTo(T)[k - 1], T[k])
           /\ \A k \in 0..Len(T) : ShownTo(T)[k] \in Seq(Nat)
<1> DEFINE step == [x \in Seq(Nat) \X (1..Len(T)) |->
                       IF T[x[2]] = NUL THEN x[1] ELSE Append(x[1], T[x[2]])]
           n == Len(T)
           f == ShownTo(T)
<1>0. n \in Nat
  OBVIOUS
<1>1. \A x \in Seq(Nat), k \in 1..n : /\ step[<<x, k>>] \in Seq(Nat)
                                      /\ step[<<x, k>>] = IF T[k] = NUL THEN x ELSE Append(x, T[k])
  <2> SUFFICES ASSUME NEW x \in Seq(Nat), NEW k \in 1..n
               PROVE  /\ step[<<x, k>>] \in Seq(Nat)
                      /\ step[<<x, k>>] = IF T[k] = NUL THEN x ELSE Append(x, T[k])
    OBVIOUS
  <2>1. <<x, k>> \in Seq(Nat) \X (1..Len(T)) /\ <<x, k>>[1] = x /\ <<x, k>>[2] = k
    OBVIOUS
  <2>2. step[<<x, k>>] = IF T[k] = NUL THEN x ELSE Append(x, T[k])
    BY <2>1
  <2>3. T[k] \in Nat
    OBVIOUS
  <2> HIDE DEF step
  <2> QED BY <2>2, <2>3
<1> HIDE DEF step
<1>2. PICK g \in [0..n -> Seq(Nat)] : IsCount(g, n, <<>>, step)
  <2>1. <<>> \in Seq(Nat)
    OBVIOUS
  <2> HIDE DEF n
  <2> QED BY <1>0, <1>1, <2>1, CountExists
<1>3. g[0] = <<>> /\ \A k \in 1..n : g[k] = step[<<g[k - 1], k>>]
  <2>1. IsCount(g, n, <<>>, step)
    BY <1>2
  <2>2. IsStepwise(g, n, <<>>, step)
    <3> HIDE DEF n, f
    <3> QED BY <1>0, <2>1, CountSteps, Zenon
  <2> QED BY <2>2, Zenon DEF IsStepwise
<1>4. \A k \in 0..n : g[k] \in Seq(Nat)
  BY <1>2
<1>5. ASSUME NEW k \in 1..n PROVE g[k] = IF T[k] = NUL THEN g[k - 1] ELSE Append(g[k - 1], T[k])
  <2>1. k - 1 \in 0..n
    BY <1>0
  <2> QED BY <1>1, <1>3, <1>4, <2>1
<1>6. ShownLoop(g, T)
  <2>1. \A k \in 0..n : g[k] = IF k = 0 THEN <<>>
                               ELSE IF T[k] = NUL THEN g[k - 1] ELSE Append(g[k - 1], T[k])
    <3>1. \A k \in 0..n : k # 0 => k \in 1..n
      BY <1>0
    <3> QED BY <1>3, <1>5, <3>1
  <2>2. g = [k \in 0..n |-> g[k]]
    BY <1>2
  <2> QED BY <2>1, <2>2 DEF ShownLoop
<1>7. ShownLoop(f, T)
  BY <1>6, Zenon DEF ShownTo
<1> HIDE DEF f
<1>8. ASSUME NEW k \in 0..n
      PROVE  f[k] = IF k = 0 THEN <<>>
                    ELSE IF T[k] = NUL THEN f[k - 1] ELSE Append(f[k - 1], T[k])
  <2> DEFINE F(j) == IF j = 0 THEN <<>>
                     ELSE IF T[j] = NUL THEN f[j - 1] ELSE Append(f[j - 1], T[j])
  <2>1. f = [j \in 0..n |-> F(j)]
    BY <1>7 DEF ShownLoop
  <2> HIDE DEF F
  <2>2. f[k] = F(k)
    BY <2>1
  <2> QED BY <2>2 DEF F
<1>9. f[0] = <<>>
  BY <1>0, <1>8
<1>10. ASSUME NEW k \in 1..n
       PROVE  f[k] = IF T[k] = NUL THEN f[k - 1] ELSE Append(f[k - 1], T[k])
  <2>1. k \in 0..n /\ k # 0
    BY <1>0
  <2> QED BY <1>8, <2>1
<1>11. \A k \in 0..n : f[k] = g[k]
  <2>1. Alike(f, g, n)
    BY <1>3, <1>5, <1>9, <1>10 DEF Alike
  <2> HIDE DEF n
  <2> QED BY <1>0, <2>1, CountOnce, Zenon
<1>12. Shown(T) = f[n]
  BY DEF Shown, f, ShownTo, ShownLoop
<1> QED BY <1>4, <1>9, <1>10, <1>11, <1>12 DEF f

\* What is put behind the second part is put behind the whole.
LEMMA AppendIn ==
    \A a, b \in Seq(Nat), c \in Nat : a \o Append(b, c) = Append(a \o b, c)
OBVIOUS

\* What is shown of a text is what is shown of its first k characters and of the rest.
LEMMA ShownSplits ==
    ASSUME NEW T \in Seq(Nat), NEW k \in 0..Len(T)
    PROVE  ShownTo(T)[k] \o Shown(SubSeq(T, k + 1, Len(T))) = Shown(T)
<1> DEFINE R == SubSeq(T, k + 1, Len(T))
           L == Len(T)
           n == L - k
           F == ShownTo(T)
           G == ShownTo(R)
           f == [j \in 0..n |-> F[k] \o G[j]]
           g == [j \in 0..n |-> F[k + j]]
<1>1. /\ R \in Seq(Nat) /\ Len(R) = n /\ n \in Nat /\ L \in Nat /\ k \in Nat /\ k <= L
      /\ \A j \in 1..n : R[j] = T[k + j]
  OBVIOUS
<1> HIDE DEF R
<1>2. /\ Shown(T) = F[L]
      /\ \A j \in 1..L : F[j] = IF T[j] = NUL THEN F[j - 1] ELSE Append(F[j - 1], T[j])
      /\ \A j \in 0..L : F[j] \in Seq(Nat)
  BY ShownSteps
<1>3. /\ Shown(R) = G[n] /\ G[0] = <<>>
      /\ \A j \in 1..n : G[j] = IF R[j] = NUL THEN G[j - 1] ELSE Append(G[j - 1], R[j])
      /\ \A j \in 0..n : G[j] \in Seq(Nat)
  BY <1>1, ShownSteps
<1>4. \A j \in 1..L : T[j] \in Nat
  OBVIOUS
<1>5. n = L - k
  OBVIOUS
<1> HIDE DEF F, G, L, n
<1>6. F[k] \in Seq(Nat)
  BY <1>1, <1>2
<1>7. \A j \in 0..n : f[j] = F[k] \o G[j] /\ g[j] = F[k + j]
  OBVIOUS
<1> HIDE DEF f, g
<1>8. f[0] = g[0]
  <2>1. 0 \in 0..n /\ k + 0 = k
    BY <1>1
  <2>2. F[k] \o <<>> = F[k]
    BY <1>6
  <2> QED BY <1>3, <1>7, <2>1, <2>2
<1>9. ASSUME NEW j \in 1..n, f[j - 1] = g[j - 1] PROVE f[j] = g[j]
  <2>0. n \in Nat /\ L \in Nat /\ k \in Nat /\ n = L - k /\ j \in Nat /\ 1 <= j /\ j <= n
    BY <1>1, <1>5
  <2>1. /\ j - 1 \in 0..n /\ j \in 0..n /\ k + (j - 1) = (k + j) - 1 /\ k + j \in 1..L
    BY <2>0
  <2>2. G[j - 1] \in Seq(Nat) /\ T[k + j] \in Nat
    BY <1>3, <1>4, <2>1
  <2>3. F[k + j] = IF T[k + j] = NUL THEN F[(k + j) - 1] ELSE Append(F[(k + j) - 1], T[k + j])
    BY <1>2, <2>1
  <2>4. G[j] = IF T[k + j] = NUL THEN G[j - 1] ELSE Append(G[j - 1], T[k + j])
    BY <1>1, <1>3
  <2>5. F[k] \o G[j - 1] = F[(k + j) - 1]
    BY <1>7, <1>9, <2>1
  <2>6. F[k] \o Append(G[j - 1], T[k + j]) = Append(F[k] \o G[j - 1], T[k + j])
    <3> QED BY <1>6, <2>2, AppendIn, Zenon
  <2>7. F[k] \o G[j] = F[k + j]
    BY <2>3, <2>4, <2>5, <2>6
  <2> QED BY <1>7, <2>1, <2>7
<1>10. f[n] = g[n]
  <2>1. n \in 0..n
    BY <1>1
  <2>2. Alike(f, g, n)
    BY <1>8, <1>9 DEF Alike
  <2> QED BY <1>1, <2>1, <2>2, CountOnce
<1>11. F[k] \o Shown(R) = Shown(T)
  <2>1. n \in 0..n /\ k + n = L
    BY <1>1, <1>5
  <2> QED BY <1>2, <1>3, <1>7, <1>10, <2>1
<1> QED BY <1>11 DEF F, R

-----------------------------------------------------------------------------
\* Concat of the first k texts.
ConcatLoop(f, ss) == f = [k \in 0..Len(ss) |-> IF k = 0 THEN <<>> ELSE f[k - 1] \o ss[k]]
ConcatTo(ss) == CHOOSE f : ConcatLoop(f, ss)

LEMMA ConcatSteps ==
    ASSUME NEW S, NEW W \in Seq(Seq(S))
    PROVE  /\ Concat(W) = ConcatTo(W)[Len(W)]
           /\ ConcatTo(W)[0] = <<>>
           /\ \A k \in 1..Len(W) : ConcatTo(W)[k] = ConcatTo(W)[k - 1] \o W[k]
           /\ \A k \in 0..Len(W) : ConcatTo(W)[k] \in Seq(S)
<1> DEFINE step == [x \in Seq(S) \X (1..Len(W)) |-> x[1] \o W[x[2]]]
           n == Len(W)
           f == ConcatTo(W)
<1>0. n \in Nat
  OBVIOUS
<1>1. \A x \in Seq(S), k \in 1..n : /\ step[<<x, k>>] \in Seq(S)
                                    /\ step[<<x, k>>] = x \o W[k]
  <2> SUFFICES ASSUME NEW x \in Seq(S), NEW k \in 1..n
               PROVE  step[<<x, k>>] \in Seq(S) /\ step[<<x, k>>] = x \o W[k]
    OBVIOUS
  <2>1. <<x, k>> \in Seq(S) \X (1..Len(W)) /\ <<x, k>>[1] = x /\ <<x, k>>[2] = k
    OBVIOUS
  <2>2. step[<<x, k>>] = x \o W[k]
    BY <2>1
  <2>3. W[k] \in Seq(S)
    OBVIOUS
  <2> HIDE DEF step
  <2> QED BY <2>2, <2>3
<1> HIDE DEF step
<1>2. PICK g \in [0..n -> Seq(S)] : IsCount(g, n, <<>>, step)
  <2>1. <<>> \in Seq(S)
    OBVIOUS
  <2> HIDE DEF n
  <2> QED BY <1>0, <1>1, <2>1, CountExists
<1>3. g[0] = <<>> /\ \A k \in 1..n : g[k] = step[<<g[k - 1], k>>]
  <2>1. IsCount(g, n, <<>>, step)
    BY <1>2
  <2>2. IsStepwise(g, n, <<>>, step)
    <3> HIDE DEF n, f
    <3> QED BY <1>0, <2>1, CountSteps, Zenon
  <2> QED BY <2>2, Zenon DEF IsStepwise
<1>4. \A k \in 0..n : g[k] \in Seq(S)
  BY <1>2
<1>5. ASSUME NEW k \in 1..n PROVE g[k] = g[k - 1] \o W[k]
  <2>1. k - 1 \in 0..n
    BY <1>0
  <2> QED BY <1>1, <1>3, <1>4, <2>1
<1>6. ConcatLoop(g, W)
  <2>1. \A k \in 0..n : g[k] = IF k = 0 THEN <<>> ELSE g[k - 1] \o W[k]
    <3>1. \A k \in 0..n : k # 0 => k \in 1..n
      BY <1>0
    <3> QED BY <1>3, <1>5, <3>1
  <2>2. g = [k \in 0..n |-> g[k]]
    BY <1>2
  <2> QED BY <2>1, <2>2 DEF ConcatLoop
<1>7. ConcatLoop(f, W)
  BY <1>6, Zenon DEF ConcatTo
<1> HIDE DEF f
<1>8. ASSUME NEW k \in 0..n
      PROVE  f[k] = IF k = 0 THEN <<>> ELSE f[k - 1] \o W[k]
  <2> DEFINE F(j) == IF j = 0 THEN <<>> ELSE f[j - 1] \o W[j]
  <2>1. f = [j \in 0..n |-> F(j)]
    BY <1>7 DEF ConcatLoop
  <2> HIDE DEF F
  <2>2. f[k] = F(k)
    BY <2>1
  <2> QED BY <2>2 DEF F
<1>9. f[0] = <<>>
  BY <1>0, <1>8
<1>10. ASSUME NEW k \in 1..n PROVE f[k] = f[k - 1] \o W[k]
  <2>1. k \in 0..n /\ k # 0
    BY <1>0
  <2> QED BY <1>8, <2>1
<1>11. \A k \in 0..n : f[k] = g[k]
  <2>1. Alike(f, g, n)
    BY <1>3, <1>5, <1>9, <1>10 DEF Alike
  <2> HIDE DEF n
  <2> QED BY <1>0, <2>1, CountOnce, Zenon
<1>12. Concat(W) = f[n]
  BY DEF Concat, f, ConcatTo, ConcatLoop
<1> QED BY <1>4, <1>9, <1>10, <1>11, <1>12 DEF f

\* A text written behind the others comes behind them on the console.
LEMMA ConcatAppend ==
    ASSUME NEW S, NEW W \in Seq(Seq(S)), NEW x \in Seq(S)
    PROVE  /\ Concat(W) \in Seq(S)
           /\ Append(W, x) \in Seq(Seq(S))
           /\ Concat(Append(W, x)) = Concat(W) \o x
<1> DEFINE V == Append(W, x)
           n == Len(W)
           F == ConcatTo(W)
           G == ConcatTo(V)
<1>1. n \in Nat /\ V \in Seq(Seq(S)) /\ Len(V) = n + 1 /\ V[n + 1] = x /\ \A k \in 1..n : V[k] = W[k]
  OBVIOUS
<1> HIDE DEF V
<1>2. /\ Concat(W) = F[n] /\ F[0] = <<>> /\ \A k \in 1..n : F[k] = F[k - 1] \o W[k]
      /\ \A k \in 0..n : F[k] \in Seq(S)
  BY ConcatSteps
<1>3. /\ Concat(V) = G[n + 1] /\ G[0] = <<>> /\ \A k \in 1..(n + 1) : G[k] = G[k - 1] \o V[k]
  BY <1>1, ConcatSteps
<1> HIDE DEF n, F, G
<1>4. Alike(F, G, n)
  <2>1. \A k \in 1..n : k \in 1..(n + 1)
    BY <1>1
  <2> QED BY <1>1, <1>2, <1>3, <2>1 DEF Alike
<1>5. n \in 0..n /\ n + 1 \in 1..(n + 1) /\ (n + 1) - 1 = n
  BY <1>1
<1>6. F[n] = G[n]
  BY <1>1, <1>4, <1>5, CountOnce
<1>7. G[n + 1] = G[n] \o x
  BY <1>1, <1>3, <1>5
<1> QED BY <1>1, <1>2, <1>3, <1>5, <1>6, <1>7 DEF V

LEMMA ConcatNone == Concat(<<>>) = <<>>
<1>1. <<>> \in Seq(Seq(Nat)) /\ Len(<<>>) = 0
  OBVIOUS
<1> QED BY <1>1, ConcatSteps

LEMMA ConcatOne == ASSUME NEW S, NEW x \in Seq(S) PROVE Concat(<<x>>) = x
<1>1. <<>> \in Seq(Seq(S)) /\ Append(<<>>, x) = <<x>> /\ <<>> \o x = x
  OBVIOUS
<1>2. Concat(Append(<<>>, x)) = Concat(<<>>) \o x
  BY <1>1, ConcatAppend
<1> QED BY <1>1, <1>2, ConcatNone

-----------------------------------------------------------------------------
\* What is still to put is a sequence of texts.
IsSeq(t) == \E S : t \in Seq(S)

LEMMA IsSeqSteps ==
    ASSUME NEW t, IsSeq(t), t # <<>>, NEW x
    PROVE  IsSeq(Tail(t)) /\ IsSeq(<<x>> \o Tail(t)) /\ <<x>> \o Tail(t) # <<>>
<1>1. PICK S : t \in Seq(S)
  BY DEF IsSeq
<1>2. Tail(t) \in Seq(S)
  BY <1>1
<1> DEFINE R == S \cup {x}
<1>3. Tail(t) \in Seq(R) /\ <<x>> \in Seq(R)
  <2>1. \A m \in 1..Len(Tail(t)) : Tail(t)[m] \in R
    BY <1>2
  <2> QED BY <1>2, <2>1, SeqMonotonic
<1> HIDE DEF R
<1>4. <<x>> \o Tail(t) \in Seq(R) /\ Len(<<x>> \o Tail(t)) = 1 + Len(Tail(t)) /\ Len(Tail(t)) \in Nat
  BY <1>3
<1>5. <<x>> \o Tail(t) # <<>>
  <2>1. Len(<<>>) = 0
    OBVIOUS
  <2> QED BY <1>4, <2>1
<1> QED BY <1>2, <1>4, <1>5 DEF IsSeq

\* A hexdump is a sequence of texts, whatever is in them.
LEMMA DumpIsSeq ==
    ASSUME NEW b \in Dumps, hexdump(b)
    PROVE  IsSeq(todo')
<1> DEFINE rows == (Len(b) + 15) \div 16
           Loop(g) == g = [n \in 0..rows |-> IF n = 0 THEN <<>> ELSE g[n - 1] \o HexRow(b, 16 * (n - 1))]
           upto == CHOOSE g : Loop(g)
           row == [n \in Nat |-> HexRow(b, 16 * (n - 1))]
           P(o) == {_doprnt(Codes("| %08lx      "), <<o>>, 0), Spaces(7), Codes(" |") \o <<10>>}
                   \cup {IF k % 2 = 0 THEN HexByte(b, o + k \div 2)
                         ELSE IF k % 8 = 1 THEN Codes(" ") ELSE <<>> : k \in 1..32}
                   \cup {TextByte(b, o + k) : k \in 1..16}
           S == (UNION {P(16 * (n - 1)) : n \in Nat}) \cup {Border(Ch["."], Ch["."]), Border(96, Ch["'"])}
<1>1. todo' = <<Border(Ch["."], Ch["."])>> \o upto[rows] \o <<Border(96, Ch["'"])>>
  BY DEF hexdump
<1>2. rows \in Nat
  <2>1. Len(b) \in Nat
    BY DumpsAssumption
  <2> QED BY <2>1
<1>3. ASSUME NEW o PROVE HexRow(b, o) \in Seq(P(o))
  <2> DEFINE A == _doprnt(Codes("| %08lx      "), <<o>>, 0)
             B(k) == IF k % 2 = 0 THEN HexByte(b, o + k \div 2)
                     ELSE IF k % 8 = 1 THEN Codes(" ") ELSE <<>>
             C == Spaces(7)
             D(k) == TextByte(b, o + k)
             E == Codes(" |") \o <<10>>
             Q == {A, C, E} \cup {B(k) : k \in 1..32} \cup {D(k) : k \in 1..16}
  <2>1. HexRow(b, o) = <<A>> \o [k \in 1..32 |-> B(k)] \o <<C>> \o [k \in 1..16 |-> D(k)] \o <<E>>
    BY DEF HexRow
  <2>2. P(o) = Q
    OBVIOUS
  <2> HIDE DEF A, B, C, D, E
  <2>3. /\ <<A>> \in Seq(Q) /\ <<C>> \in Seq(Q) /\ <<E>> \in Seq(Q)
        /\ [k \in 1..32 |-> B(k)] \in Seq(Q) /\ [k \in 1..16 |-> D(k)] \in Seq(Q)
    <3>1. /\ A \in Q /\ C \in Q /\ E \in Q
          /\ \A k \in 1..32 : B(k) \in Q
          /\ \A k \in 1..16 : D(k) \in Q
      OBVIOUS
    <3> HIDE DEF Q
    <3> QED BY <3>1
  <2> HIDE DEF Q, P
  <2> QED BY <2>1, <2>2, <2>3, ConcatProperties
<1> HIDE DEF P
<1>4. ASSUME NEW n \in Nat PROVE row[n] \in Seq(S)
  <2>1. \A x \in P(16 * (n - 1)) : x \in S
    OBVIOUS
  <2> HIDE DEF S
  <2>2. HexRow(b, 16 * (n - 1)) \in Seq(S)
    BY <1>3, <2>1, SeqMonotonic
  <2> QED BY <2>2
<1>5. Border(Ch["."], Ch["."]) \in S /\ Border(96, Ch["'"]) \in S
  OBVIOUS
<1> DEFINE step == [x \in Seq(S) \X (1..rows) |-> x[1] \o row[x[2]]]
<1> HIDE DEF S, row
<1>6. \A x \in Seq(S), k \in 1..rows : /\ step[<<x, k>>] \in Seq(S)
                                       /\ step[<<x, k>>] = x \o row[k]
  <2> SUFFICES ASSUME NEW x \in Seq(S), NEW k \in 1..rows
               PROVE  step[<<x, k>>] \in Seq(S) /\ step[<<x, k>>] = x \o row[k]
    OBVIOUS
  <2>1. <<x, k>> \in Seq(S) \X (1..rows) /\ <<x, k>>[1] = x /\ <<x, k>>[2] = k
    OBVIOUS
  <2>2. step[<<x, k>>] = x \o row[k]
    BY <2>1
  <2>3. row[k] \in Seq(S)
    BY <1>2, <1>4
  <2> HIDE DEF step
  <2> QED BY <2>2, <2>3
<1> HIDE DEF step
<1>7. PICK g \in [0..rows -> Seq(S)] : IsCount(g, rows, <<>>, step)
  <2>1. <<>> \in Seq(S)
    OBVIOUS
  <2> HIDE DEF rows
  <2> QED BY <1>2, <1>6, <2>1, CountExists
<1>8. g[0] = <<>> /\ \A k \in 1..rows : g[k] = step[<<g[k - 1], k>>]
  <2>1. IsCount(g, rows, <<>>, step)
    BY <1>7
  <2>2. IsStepwise(g, rows, <<>>, step)
    <3> HIDE DEF rows
    <3> QED BY <1>2, <2>1, CountSteps, Zenon
  <2> QED BY <2>2, Zenon DEF IsStepwise
<1> HIDE DEF rows
<1>9. Loop(g)
  <2>1. ASSUME NEW k \in 1..rows PROVE g[k] = g[k - 1] \o row[k]
    <3>1. k - 1 \in 0..rows
      BY <1>2
    <3> QED BY <1>6, <1>7, <1>8, <3>1
  <2>2. \A k \in 0..rows : g[k] = IF k = 0 THEN <<>> ELSE g[k - 1] \o HexRow(b, 16 * (k - 1))
    <3>1. \A k \in 0..rows : k \in Nat /\ (k # 0 => k \in 1..rows)
      BY <1>2
    <3> QED BY <1>8, <2>1, <3>1 DEF row
  <2>3. g = [k \in 0..rows |-> g[k]]
    BY <1>7
  <2> QED BY <2>2, <2>3
<1>10. Loop(upto)
  <2> HIDE DEF Loop
  <2> QED BY <1>9, Zenon
<1> HIDE DEF upto
<1>11. ASSUME NEW k \in 0..rows
       PROVE  upto[k] = IF k = 0 THEN <<>> ELSE upto[k - 1] \o row[k]
  <2> DEFINE F(j) == IF j = 0 THEN <<>> ELSE upto[j - 1] \o HexRow(b, 16 * (j - 1))
  <2>1. upto = [j \in 0..rows |-> F(j)]
    BY <1>10
  <2> HIDE DEF F
  <2>2. upto[k] = F(k)
    BY <2>1
  <2>3. row[k] = HexRow(b, 16 * (k - 1))
    BY <1>2 DEF row
  <2> QED BY <2>2, <2>3 DEF F
<1>12. Alike(upto, g, rows)
  <2>1. 0 \in 0..rows /\ \A k \in 1..rows : k \in 0..rows /\ k # 0 /\ k - 1 \in 0..rows
    BY <1>2
  <2>2. upto[0] = g[0]
    BY <1>8, <1>11, <2>1
  <2>3. ASSUME NEW k \in 1..rows, upto[k - 1] = g[k - 1] PROVE upto[k] = g[k]
    <3>1. g[k] = g[k - 1] \o row[k]
      BY <1>6, <1>7, <1>8, <2>1
    <3> QED BY <1>11, <2>1, <2>3, <3>1
  <2> QED BY <2>2, <2>3 DEF Alike
<1>13. upto[rows] \in Seq(S)
  <2>1. rows \in 0..rows
    BY <1>2
  <2>2. \A k \in 0..rows : upto[k] = g[k]
    BY <1>2, <1>12, CountOnce, Zenon
  <2> QED BY <1>7, <2>1, <2>2
<1>14. todo' \in Seq(S)
  <2> DEFINE A == Border(Ch["."], Ch["."])
             B == Border(96, Ch["'"])
  <2>1. A \in S /\ B \in S
    BY <1>5
  <2> HIDE DEF A, B
  <2>2. todo' = <<A>> \o upto[rows] \o <<B>>
    BY <1>1 DEF A, B
  <2>3. <<A>> \in Seq(S) /\ <<B>> \in Seq(S)
    BY <2>1
  <2> QED BY <1>13, <2>2, <2>3, ConcatProperties
<1> QED BY <1>14 DEF IsSeq

-----------------------------------------------------------------------------
\* Where the printf in progress is: k characters of its text have been put.
TextOf(c) == _doprnt(c.fmt, c.args, 0)
PutSoFar(T, k) ==
    /\ Console \o buf = ShownTo(T)[k]
    /\ \/ todo = <<SubSeq(T, k + 1, Len(T))>>
       \/ todo = <<>> /\ k = Len(T)
Printing ==
    /\ TextOf(call) \in Seq(Nat) /\ buf \in Seq(Nat) /\ writes \in Seq(Seq(Nat))
    /\ \E k \in 0..Len(TextOf(call)) : PutSoFar(TextOf(call), k)

PrintInv ==
    /\ IsSeq(todo)
    /\ todo = <<>> => buf = <<>>
    /\ call = None => todo = <<>> /\ writes = <<>>
    /\ call.f = "printf" => Printing

LEMMA InitPrint == StdioInit => PrintInv
<1> SUFFICES ASSUME StdioInit PROVE PrintInv
  OBVIOUS
<1>1. IsSeq(<<>>)
  <2>1. <<>> \in Seq(Nat)
    OBVIOUS
  <2> QED BY <2>1 DEF IsSeq
<1>2. None.f # "printf"
  BY DEF None
<1> QED BY <1>1, <1>2 DEF StdioInit, PrintInv

LEMMA StartPrint == ASSUME PrintInv, NEW p \in Prints, printf(p) PROVE PrintInv'
<1> DEFINE T == _doprnt(p.fmt, p.args, 0)
<1>1. /\ call = None /\ call' = [f |-> "printf", fmt |-> p.fmt, args |-> p.args]
      /\ todo' = <<T>> /\ buf' = buf /\ writes' = writes
      /\ todo = <<>> /\ buf = <<>> /\ writes = <<>>
  BY DEF printf, PrintInv
<1>2. T \in Seq(Nat) /\ TextOf(call') = T /\ call'.f = "printf"
  BY <1>1, PrintsAssumption DEF TextOf
<1> HIDE DEF T
<1>3. call' # None
  BY <1>1 DEF None
<1>4. IsSeq(todo') /\ todo' # <<>>
  <2>1. <<T>> \in Seq({T}) /\ <<T>> # <<>>
    OBVIOUS
  <2> QED BY <1>1, <2>1 DEF IsSeq
<1>5. Printing'
  <2>1. buf' \in Seq(Nat) /\ writes' \in Seq(Seq(Nat))
    BY <1>1
  <2>2. Console' = <<>>
    BY <1>1, ConcatNone DEF Console
  <2>3. 0 \in 0..Len(T) /\ SubSeq(T, 0 + 1, Len(T)) = T
    <3>1. Len(T) \in Nat /\ SubSeq(T, 1, Len(T)) = T
      BY <1>2, SubSeqFull
    <3> QED BY <3>1
  <2>4. ShownTo(T)[0] = <<>>
    BY <1>2, ShownSteps
  <2>5. Console' \o buf' = <<>>
    <3>1. <<>> \o <<>> = <<>>
      OBVIOUS
    <3> QED BY <1>1, <2>2, <3>1
  <2>6. PutSoFar(T, 0)'
    BY <1>1, <2>3, <2>4, <2>5 DEF PutSoFar
  <2> QED BY <1>2, <2>1, <2>3, <2>6 DEF Printing
<1> QED BY <1>3, <1>4, <1>5 DEF PrintInv

LEMMA PairConcat ==
    \A S : \A x, y \in S : <<x>> \in Seq(S) /\ <<y>> \in Seq(S) /\ <<x, y>> = <<x>> \o <<y>>
<1> SUFFICES ASSUME NEW S, NEW x \in S, NEW y \in S
             PROVE  <<x>> \in Seq(S) /\ <<y>> \in Seq(S) /\ <<x, y>> = <<x>> \o <<y>>
  OBVIOUS
<1>1. <<x>> \in Seq(S) /\ <<y>> \in Seq(S)
  OBVIOUS
<1>2. /\ <<x>> \o <<y>> \in Seq(S) /\ Len(<<x>> \o <<y>>) = 2
      /\ (<<x>> \o <<y>>)[1] = x /\ (<<x>> \o <<y>>)[2] = y
  OBVIOUS
<1>3. <<x, y>> \in Seq(S) /\ Len(<<x, y>>) = 2 /\ <<x, y>>[1] = x /\ <<x, y>>[2] = y
  OBVIOUS
<1>4. ASSUME NEW p \in Seq(S), NEW q \in Seq(S), Len(p) = 2, Len(q) = 2,
             p[1] = q[1], p[2] = q[2]
      PROVE  p = q
  <2>1. \A m \in 1..2 : m = 1 \/ m = 2
    OBVIOUS
  <2>2. \A m \in 1..Len(p) : p[m] = q[m]
    BY <1>4, <2>1
  <2> QED BY <1>4, <2>2, SeqEqual
<1>5. <<x, y>> = <<x>> \o <<y>>
  <2> DEFINE p == <<x, y>>
             q == <<x>> \o <<y>>
  <2>1. /\ p \in Seq(S) /\ q \in Seq(S) /\ Len(p) = 2 /\ Len(q) = 2
        /\ p[1] = q[1] /\ p[2] = q[2]
    BY <1>2, <1>3
  <2> HIDE DEF p, q
  <2>2. p = q
    BY <1>4, <2>1
  <2> QED BY <2>2 DEF p, q
<1> QED BY <1>1, <1>5

\* What a flush and the character behind it put on the console.
LEMMA TwoWrites ==
    ASSUME NEW W \in Seq(Seq(Nat)), NEW x \in Seq(Nat), NEW y \in Seq(Nat)
    PROVE  /\ Append(W, x) \o <<y>> \in Seq(Seq(Nat))
           /\ W \o <<x, y>> = Append(W, x) \o <<y>>
           /\ Concat(Append(W, x) \o <<y>>) = (Concat(W) \o x) \o y
<1>1. Append(W, x) \in Seq(Seq(Nat)) /\ Concat(Append(W, x)) = Concat(W) \o x
  BY ConcatAppend
<1>2. /\ Append(Append(W, x), y) \in Seq(Seq(Nat))
      /\ Concat(Append(Append(W, x), y)) = Concat(Append(W, x)) \o y
  BY <1>1, ConcatAppend
<1>3. Append(W, x) \o <<y>> = Append(Append(W, x), y)
  BY <1>1, AppendIsConcat
<1>4. W \o <<x, y>> = Append(W, x) \o <<y>>
  <2>1. <<x>> \in Seq(Seq(Nat)) /\ <<y>> \in Seq(Seq(Nat)) /\ <<x, y>> = <<x>> \o <<y>>
    BY PairConcat, Zenon
  <2>2. W \o (<<x>> \o <<y>>) = (W \o <<x>>) \o <<y>>
    BY <2>1, ConcatAssociative
  <2>3. Append(W, x) = W \o <<x>>
    BY AppendIsConcat
  <2> QED BY <2>1, <2>2, <2>3
<1> QED BY <1>1, <1>2, <1>3, <1>4

\* The character that printf puts is the next one of its text.
LEMMA NextChar ==
    ASSUME NEW T \in Seq(Nat), NEW k \in 0..Len(T), NEW R, R = SubSeq(T, k + 1, Len(T)), R # <<>>
    PROVE  /\ k + 1 \in 1..Len(T) /\ k + 1 \in 0..Len(T)
           /\ Head(R) = T[k + 1] /\ T[k + 1] \in Nat
           /\ Tail(R) = SubSeq(T, (k + 1) + 1, Len(T))
<1>1. Len(T) \in Nat /\ k \in Nat /\ k <= Len(T)
  OBVIOUS
<1>2. k # Len(T)
  <2>1. SUFFICES ASSUME k = Len(T) PROVE R = <<>>
    OBVIOUS
  <2>2. R \in Seq(Nat) /\ Len(R) = 0
    BY <1>1, <2>1
  <2> QED BY <2>2
<1>3. k + 1 \in 1..Len(T) /\ k + 1 \in 0..Len(T)
  BY <1>1, <1>2
<1>4. Head(R) = T[k + 1] /\ T[k + 1] \in Nat
  BY <1>3
<1>5. Tail(R) = SubSeq(T, (k + 1) + 1, Len(T))
  BY <1>1, <1>3, HeadTailOfSubSeq
<1> QED BY <1>3, <1>4, <1>5

LEMMA PutChar == ASSUME PrintInv, printf_char PROVE PrintInv'
<1>1. /\ todo # <<>> /\ Head(todo) # <<>> /\ IsSeq(todo) /\ call' = call
      /\ todo' = <<Tail(Head(todo))>> \o Tail(todo)
  BY DEF printf_char, PrintInv
<1>2. IsSeq(todo') /\ todo' # <<>>
  BY <1>1, IsSeqSteps
<1>3. call' # None
  BY <1>1 DEF PrintInv
<1>4. ASSUME call.f = "printf" PROVE Printing'
  <2> DEFINE T == TextOf(call)
             L == Len(T)
             s == Console \o buf
  <2>1. T \in Seq(Nat) /\ buf \in Seq(Nat) /\ writes \in Seq(Seq(Nat))
    BY <1>4 DEF PrintInv, Printing
  <2>2. PICK k \in 0..L : PutSoFar(T, k)
    BY <1>4 DEF PrintInv, Printing
  <2> DEFINE R == SubSeq(T, k + 1, L)
             c == T[k + 1]
  <2> HIDE DEF T
  <2>3. todo = <<R>> /\ s = ShownTo(T)[k]
    BY <1>1, <2>2 DEF PutSoFar
  <2>4. Head(todo) = R /\ Tail(todo) = <<>> /\ R # <<>>
    <3> HIDE DEF R
    <3> QED BY <1>1, <2>3
  <2>5. /\ k + 1 \in 1..L /\ k + 1 \in 0..L /\ Head(R) = c /\ c \in Nat
        /\ Tail(R) = SubSeq(T, (k + 1) + 1, L)
    BY <2>1, <2>4, NextChar
  <2> HIDE DEF R
  <2>6. todo' = <<SubSeq(T, (k + 1) + 1, L)>>
    <3> DEFINE Q == SubSeq(T, (k + 1) + 1, L)
    <3>1. todo' = <<Q>> \o <<>>
      BY <1>1, <2>4, <2>5
    <3> HIDE DEF Q
    <3>2. <<Q>> \in Seq({Q}) /\ <<Q>> \o <<>> = <<Q>>
      OBVIOUS
    <3> QED BY <3>1, <3>2 DEF Q
  <2>7. /\ ShownTo(T)[k] \in Seq(Nat)
        /\ ShownTo(T)[k + 1] = IF c = NUL THEN s ELSE Append(s, c)
    <3>1. (k + 1) - 1 = k
      BY <2>2
    <3> QED BY <2>1, <2>3, <2>5, <3>1, ShownSteps
  <2>8. Concat(writes) \in Seq(Nat) /\ Console = Concat(writes) /\ s \in Seq(Nat)
    BY <2>1, <2>3, <2>7, ConcatAppend DEF Console
  <2> HIDE DEF c
  <2>9. /\ IF c = 10 THEN writes' = writes \o <<buf, <<10>>>> /\ buf' = <<>>
           ELSE IF c = NUL \/ Len(buf) >= PRINTF_BUFMAX - 1
             THEN writes' = Append(writes, buf) \o putchar(c) /\ buf' = <<>>
           ELSE writes' = writes /\ buf' = Append(buf, c)
    BY <2>4, <2>5 DEF printf_char, puts, flush
  <2>10. ASSUME NEW y \in Seq(Nat), writes' = Append(writes, buf) \o <<y>>, buf' = <<>>
         PROVE  buf' \in Seq(Nat) /\ writes' \in Seq(Seq(Nat)) /\ (Console \o buf)' = s \o y
    <3>1. writes' \in Seq(Seq(Nat)) /\ Concat(writes') = s \o y
      <4>1. /\ Append(writes, buf) \o <<y>> \in Seq(Seq(Nat))
            /\ Concat(Append(writes, buf) \o <<y>>) = (Concat(writes) \o buf) \o y
        BY <2>1, TwoWrites
      <4>2. s = Concat(writes) \o buf
        BY <2>8
      <4> HIDE DEF s
      <4> QED BY <2>10, <4>1, <4>2
    <3>2. (s \o y) \o <<>> = s \o y /\ s \o y \in Seq(Nat)
      BY <2>8
    <3> HIDE DEF s
    <3>3. Console' = s \o y
      BY <3>1 DEF Console
    <3>4. Console' \o buf' = s \o y
      BY <2>10, <3>2, <3>3
    <3>5. buf' \in Seq(Nat)
      BY <2>10
    <3> QED BY <3>1, <3>4, <3>5
  <2>11. buf' \in Seq(Nat) /\ writes' \in Seq(Seq(Nat)) /\ (Console \o buf)' = ShownTo(T)[k + 1]
    <3>0. Append(s, c) = s \o <<c>> /\ s \o <<>> = s /\ <<c>> \in Seq(Nat) /\ <<>> \in Seq(Nat)
      <4> HIDE DEF s
      <4> QED BY <2>5, <2>8, AppendIsConcat
    <3>1. CASE c = 10
      <4>1. writes' = Append(writes, buf) \o <<<<c>>>> /\ buf' = <<>>
        <5> DEFINE y == <<c>>
        <5>1. y \in Seq(Nat) /\ writes' = writes \o <<buf, y>> /\ buf' = <<>>
          BY <2>9, <3>0, <3>1
        <5> HIDE DEF y
        <5>2. writes \o <<buf, y>> = Append(writes, buf) \o <<y>>
          BY <2>1, <5>1, TwoWrites
        <5> QED BY <5>1, <5>2 DEF y
      <4>2. c # NUL
        BY <3>1 DEF NUL
      <4> QED BY <2>7, <2>10, <3>0, <4>1, <4>2
    <3>2. CASE c # 10 /\ (c = NUL \/ Len(buf) >= PRINTF_BUFMAX - 1)
      <4> DEFINE y == IF c = NUL THEN <<>> ELSE <<c>>
      <4>1. writes' = Append(writes, buf) \o <<y>> /\ buf' = <<>> /\ y \in Seq(Nat)
        BY <2>9, <3>0, <3>2 DEF putchar
      <4>2. s \o y = ShownTo(T)[k + 1]
        BY <2>7, <3>0
      <4> HIDE DEF y, s
      <4> QED BY <2>10, <4>1, <4>2
    <3>3. CASE c # 10 /\ ~(c = NUL \/ Len(buf) >= PRINTF_BUFMAX - 1)
      <4>1. writes' = writes /\ buf' = Append(buf, c)
        BY <2>9, <3>3
      <4>2. Console' = Console
        BY <4>1 DEF Console
      <4>3. Console \o Append(buf, c) = Append(s, c)
        <5>1. Console \in Seq(Nat)
          BY <2>8
        <5> QED BY <2>1, <2>5, <5>1, AppendIn, Zenon
      <4> HIDE DEF s
      <4> QED BY <2>1, <2>5, <2>7, <3>3, <4>1, <4>2, <4>3
    <3> QED BY <3>1, <3>2, <3>3
  <2>12. TextOf(call)' = T
    BY <1>1 DEF T, TextOf
  <2>13. PutSoFar(TextOf(call), k + 1)'
    BY <2>6, <2>11, <2>12 DEF PutSoFar
  <2> QED BY <2>1, <2>5, <2>11, <2>12, <2>13 DEF Printing
<1> QED BY <1>1, <1>2, <1>3, <1>4 DEF PrintInv

LEMMA EndPrint == ASSUME PrintInv, vprintf_end PROVE PrintInv'
<1>1. /\ todo # <<>> /\ Head(todo) = <<>> /\ IsSeq(todo) /\ call' = call
      /\ writes' = IF buf = <<>> THEN writes ELSE Append(writes, buf)
      /\ buf' = <<>> /\ todo' = Tail(todo)
  BY DEF vprintf_end, PrintInv, flush
<1>2. IsSeq(todo')
  BY <1>1, IsSeqSteps
<1>3. call' # None
  BY <1>1 DEF PrintInv
<1>4. ASSUME call.f = "printf" PROVE Printing'
  <2> DEFINE T == TextOf(call)
             L == Len(T)
             s == Console \o buf
  <2>1. T \in Seq(Nat) /\ buf \in Seq(Nat) /\ writes \in Seq(Seq(Nat))
    BY <1>4 DEF PrintInv, Printing
  <2>2. PICK k \in 0..L : PutSoFar(T, k)
    BY <1>4 DEF PrintInv, Printing
  <2> HIDE DEF T
  <2> DEFINE R == SubSeq(T, k + 1, L)
  <2>3. todo = <<R>> /\ s = ShownTo(T)[k]
    BY <1>1, <2>2 DEF PutSoFar
  <2>4. Len(R) = L - k /\ L \in Nat
    BY <2>1, <2>2
  <2> HIDE DEF R
  <2>5. R = <<>> /\ Tail(todo) = <<>>
    BY <1>1, <2>3
  <2>6. k = L
    BY <2>2, <2>4, <2>5
  <2>7. Concat(writes) \in Seq(Nat) /\ Append(writes, buf) \in Seq(Seq(Nat))
        /\ Concat(Append(writes, buf)) = Concat(writes) \o buf
    BY <2>1, ConcatAppend
  <2>8. writes' \in Seq(Seq(Nat)) /\ Concat(writes') = s
    <3>1. CASE buf = <<>>
      BY <1>1, <2>1, <2>7, <3>1 DEF Console
    <3>2. CASE buf # <<>>
      BY <1>1, <2>7, <3>2 DEF Console
    <3> QED BY <3>1, <3>2
  <2>9. s \o <<>> = s
    <3>1. s \in Seq(Nat)
      BY <2>1, <2>7 DEF Console
    <3> HIDE DEF s
    <3> QED BY <3>1
  <2>10. (Console \o buf)' = ShownTo(T)[k]
    <3> HIDE DEF s
    <3> QED BY <1>1, <2>3, <2>8, <2>9 DEF Console
  <2>11. TextOf(call)' = T /\ buf' \in Seq(Nat)
    BY <1>1 DEF T, TextOf
  <2>12. PutSoFar(TextOf(call), k)'
    BY <1>1, <2>5, <2>6, <2>10, <2>11 DEF PutSoFar
  <2> QED BY <2>1, <2>2, <2>8, <2>11, <2>12 DEF Printing
<1> QED BY <1>1, <1>2, <1>3, <1>4 DEF PrintInv

LEMMA OtherCalls ==
    ASSUME PrintInv,
           \/ \E x \in Directives : sprintf(x)
           \/ \E b \in Dumps : hexdump(b)
           \/ Return
           \/ UNCHANGED stdio_vars
    PROVE  PrintInv'
<1>1. ASSUME NEW x \in Directives, sprintf(x) PROVE PrintInv'
  <2>1. /\ call = None /\ call' = [f |-> "sprintf", d |-> x]
        /\ todo' = todo /\ buf' = buf /\ writes' = writes
    BY <1>1 DEF sprintf
  <2>2. call' # None /\ call'.f # "printf"
    BY <2>1 DEF None
  <2> QED BY <2>1, <2>2 DEF PrintInv
<1>2. ASSUME NEW b \in Dumps, hexdump(b) PROVE PrintInv'
  <2>1. /\ call = None /\ call' = [f |-> "hexdump", b |-> b] /\ buf' = buf
    BY <1>2 DEF hexdump
  <2>2. call' # None /\ call'.f # "printf"
    BY <2>1 DEF None
  <2>3. IsSeq(todo')
    BY <1>2, DumpIsSeq
  <2>4. buf' = <<>>
    BY <2>1 DEF PrintInv
  <2> QED BY <2>2, <2>3, <2>4 DEF PrintInv
<1>3. ASSUME Return PROVE PrintInv'
  <2>1. /\ call' = None /\ buf' = <<>> /\ writes' = <<>> /\ todo' = todo /\ todo = <<>>
    BY <1>3 DEF Return, Returned
  <2>2. None.f # "printf"
    BY DEF None
  <2> QED BY <2>1, <2>2 DEF PrintInv
<1>4. ASSUME UNCHANGED stdio_vars PROVE PrintInv'
  <2>1. call' = call /\ todo' = todo /\ buf' = buf /\ writes' = writes
    BY <1>4 DEF stdio_vars
  <2> QED BY <2>1 DEF PrintInv, Printing, PutSoFar, Console
<1> QED BY <1>1, <1>2, <1>3, <1>4

LEMMA PrintInvHolds == StdioSpec => []PrintInv
<1>1. ASSUME PrintInv, [StdioNext]_stdio_vars PROVE PrintInv'
  <2>1. ASSUME NEW p \in Prints, printf(p) PROVE PrintInv'
    BY <1>1, <2>1, StartPrint
  <2>2. CASE printf_char
    BY <1>1, <2>2, PutChar
  <2>3. CASE vprintf_end
    BY <1>1, <2>3, EndPrint
  <2>4. CASE \/ \E x \in Directives : sprintf(x)
             \/ \E b \in Dumps : hexdump(b)
             \/ Return
             \/ UNCHANGED stdio_vars
    BY <1>1, <2>4, OtherCalls
  <2> QED BY <1>1, <2>1, <2>2, <2>3, <2>4 DEF StdioNext
<1> QED BY <1>1, InitPrint, PTL DEF StdioSpec

\* Whatever texts printf is given and however small its buffer, what is on the
\* console, in the buffer and still to be put is at every step the text that sprintf
\* would store, no character lost and none twice, and nothing is left in the buffer
\* when the call returns (printf.c:45-72).
THEOREM NothingLost == StdioSpec => []NothingIsLost
<1>1. ASSUME PrintInv PROVE NothingIsLost
  <2>1. ASSUME call.f = "printf"
        PROVE  Console \o buf \o Shown(Concat(todo)) = Shown(vsprintf(call.fmt, call.args))
    <3> DEFINE T == TextOf(call)
               s == Console \o buf
    <3>1. T \in Seq(Nat) /\ \E k \in 0..Len(T) : PutSoFar(T, k)
      BY <1>1, <2>1 DEF PrintInv, Printing
    <3>2. vsprintf(call.fmt, call.args) = T
      BY DEF vsprintf, Saved, TextOf
    <3> HIDE DEF T
    <3>3. PICK k \in 0..Len(T) : PutSoFar(T, k)
      BY <3>1
    <3>4. s = ShownTo(T)[k]
      BY <3>3 DEF PutSoFar
    <3>5. ShownTo(T)[k] \o Shown(SubSeq(T, k + 1, Len(T))) = Shown(T)
      BY <3>1, <3>3, ShownSplits
    <3>6. CASE todo = <<SubSeq(T, k + 1, Len(T))>>
      <4>1. SubSeq(T, k + 1, Len(T)) \in Seq(Nat)
        BY <3>1
      <4>2. Concat(todo) = SubSeq(T, k + 1, Len(T))
        BY <3>6, <4>1, ConcatOne
      <4> QED BY <3>2, <3>4, <3>5, <4>2
    <3>7. CASE todo = <<>> /\ k = Len(T)
      <4>1. SubSeq(T, k + 1, Len(T)) = <<>>
        <5>1. SubSeq(T, k + 1, Len(T)) \in Seq(Nat) /\ Len(SubSeq(T, k + 1, Len(T))) = 0
          BY <3>1, <3>7
        <5> QED BY <5>1
      <4>2. Concat(todo) = <<>>
        BY <3>7, ConcatNone
      <4> QED BY <3>2, <3>4, <3>5, <4>1, <4>2
    <3> QED BY <3>3, <3>6, <3>7 DEF PutSoFar
  <2>2. Returned => buf = <<>>
    BY <1>1 DEF PrintInv, Returned
  <2> QED BY <2>1, <2>2 DEF NothingIsLost
<1> QED BY <1>1, PrintInvHolds, PTL


-----------------------------------------------------------------------------
(* rand is one-to-one on its states: adding the same number modulo the     *)
(* word loses nothing.                                                     *)

\* Two states that rand takes to the same state are the same (rand.c:26-28).
THEOREM RandIsOneToOne ==
    ASSUME NEW s \in Seeds, NEW t \in Seeds, rand(s) = rand(t)
    PROVE  s = t
<1> DEFINE S == (s[1] + RAND_STEP + Rotated(s[2])) % RWORD
           T == (t[1] + RAND_STEP + Rotated(t[2])) % RWORD
<1>1. /\ s[1] \in 0..(RWORD - 1) /\ s[2] \in 0..(RWORD - 1) /\ s = <<s[1], s[2]>>
      /\ t[1] \in 0..(RWORD - 1) /\ t[2] \in 0..(RWORD - 1) /\ t = <<t[1], t[2]>>
  BY DEF Seeds, Word
<1>2. S = T /\ (s[2] + S) % RWORD = (t[2] + T) % RWORD
  BY DEF rand
<1>3. S \in Int /\ T \in Int
  BY <1>1, RandAssumption DEF Rotated
<1>4. s[2] = t[2]
  BY <1>1, <1>2, <1>3, AddIsOneToOne, RandAssumption
<1>5. s[1] = t[1]
  <2> DEFINE k == RAND_STEP + Rotated(s[2])
  <2>1. k \in Int
    BY <1>1, RandAssumption DEF Rotated
  <2>2. (s[1] + k) % RWORD = (t[1] + k) % RWORD
    BY <1>1, <1>2, <1>4, <2>1, RandAssumption DEF Rotated
  <2> QED BY <1>1, <2>1, <2>2, AddIsOneToOne, RandAssumption
<1> QED BY <1>1, <1>4, <1>5

-----------------------------------------------------------------------------
(* valid_addr is exact, although the end it computes may wrap.             *)

\* A sum of two words, in a word: it wraps at most once.
LEMMA SumWraps ==
    ASSUME NEW a \in Address, NEW b \in Address
    PROVE  /\ a + b < ADDRESSES => (a + b) % ADDRESSES = a + b
           /\ a + b >= ADDRESSES => (a + b) % ADDRESSES = a + b - ADDRESSES
<1> ADDRESSES \in Nat /\ ADDRESSES > 0
  BY AddressesAssumption
<1> a \in Nat /\ b \in Nat /\ a < ADDRESSES /\ b < ADDRESSES
  BY DEF Address
<1> DEFINE r == (a + b) % ADDRESSES
           q == (a + b) \div ADDRESSES
<1>1. q \in Int /\ r \in 0..(ADDRESSES - 1) /\ a + b = ADDRESSES * q + r
  BY SMT
<1>2. q = 0 \/ q = 1
  <2>1. q < 2
    <3> SUFFICES ASSUME q >= 2 PROVE FALSE
      BY <1>1
    <3> HIDE DEF q, r
    <3>1. ADDRESSES * q >= ADDRESSES * 2
      BY <1>1, SMT
    <3> QED BY <1>1, <3>1
  <2>2. q > -1
    <3> SUFFICES ASSUME q <= -1 PROVE FALSE
      BY <1>1
    <3> HIDE DEF q, r
    <3>1. ADDRESSES * q <= ADDRESSES * (-1)
      BY <1>1, SMT
    <3> QED BY <1>1, <3>1
  <2> HIDE DEF q
  <2> QED BY <1>1, <2>1, <2>2
<1> HIDE DEF q, r
<1>3. r = IF a + b < ADDRESSES THEN a + b ELSE a + b - ADDRESSES
  <2>1. CASE q = 0
    BY <1>1, <2>1
  <2>2. CASE q = 1
    BY <1>1, <2>2
  <2> QED BY <1>2, <2>1, <2>2
<1> QED BY <1>3 DEF r

\* A buffer of at least one byte is accepted if and only if each of its bytes is an
\* address of the range base..bound - 1 (memcheck.c:26-37): a buffer that runs over the
\* end of memory is refused by the comparison of the wrapped end with the start.
THEOREM AcceptsWhatFits ==
    ASSUME NEW start \in Address, NEW n \in Address \ {0},
           NEW base \in Address, NEW bound \in Address
    PROVE  valid_addr(start, n, base, bound) <=>
               Bytes(start, n) \subseteq base..(bound - 1)
<1> ADDRESSES \in Nat /\ start \in Nat /\ n \in Nat /\ base \in Nat /\ bound \in Nat
    /\ n > 0 /\ start < ADDRESSES /\ n < ADDRESSES /\ bound < ADDRESSES
  BY AddressesAssumption DEF Address
<1>1. valid_addr(start, n, base, bound) <=> start >= base /\ start + n <= bound
  <2>1. CASE start + n < ADDRESSES
    BY <2>1, SumWraps DEF valid_addr
  <2>2. CASE start + n >= ADDRESSES
    BY <2>2, SumWraps DEF valid_addr
  <2> QED BY <2>1, <2>2
<1>2. ASSUME start >= base, start + n <= bound
      PROVE  Bytes(start, n) \subseteq base..(bound - 1)
  BY <1>2 DEF Bytes
<1>3. ASSUME Bytes(start, n) \subseteq base..(bound - 1)
      PROVE  start >= base /\ start + n <= bound
  <2>1. start \in Bytes(start, n) /\ start + n - 1 \in Bytes(start, n)
    BY DEF Bytes
  <2> QED BY <1>3, <2>1
<1> QED BY <1>1, <1>2, <1>3
=============================================================================
