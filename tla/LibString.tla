------------------------------ MODULE LibString ------------------------------
(***************************************************************************)
(* The string functions of the tasks' C library (libc/string).  A task's   *)
(* memory is a function from addresses to characters, a string is the      *)
(* address of its first character, and 0 is both the character NUL and the *)
(* null pointer.  A function that only reads is an operator on the memory; *)
(* one that writes returns the memory it leaves, except memmove, whose two *)
(* loops are steps of the machine so that overlapping regions show.        *)
(***************************************************************************)
EXTENDS Integers

CONSTANTS
    MEM,    \* addresses of the modelled memory (bound)
    Char    \* character codes, NUL among them (bound)
ASSUME MemAssumption  == MEM \in Nat \ {0}
ASSUME CharAssumption == Char \subseteq Nat /\ 0 \in Char

VARIABLES
    mem,                    \* the task's memory
    moving,                 \* memmove has been called and has not returned
    dest, src, count, i,    \* its parameters and its loop variable
    before                  \* the memory it was called with
vars == <<mem, moving, dest, src, count, i, before>>

Addr == 1..MEM

-----------------------------------------------------------------------------
\* Reading

strlen(m, s) ==
    LET f[p \in Nat] == IF m[p] = 0 THEN p ELSE f[p + 1] IN f[s] - s

strcmp(m, s1, s2) ==
    LET f[k \in Nat] ==
          LET a == m[s1 + k]  b == m[s2 + k]
          IN  IF a # 0 /\ b # 0 /\ a = b THEN f[k + 1] ELSE a - b
    IN  f[0]

strncmp(m, s1, s2, n) ==
    LET f[k \in Nat] ==
          LET a == m[s1 + k]  b == m[s2 + k]
          IN  IF k = n THEN 0
              ELSE IF a # b THEN a - b
              ELSE IF a = 0 THEN 0 ELSE f[k + 1]
    IN  f[0]

memcmp(m, s1, s2, size) ==
    LET f[k \in Nat] == IF k = size THEN 0
                        ELSE IF m[s1 + k] = m[s2 + k] THEN f[k + 1]
                        ELSE m[s1 + k] - m[s2 + k]
    IN  f[0]

strchr(m, s, c) ==
    LET f[p \in Nat] == IF m[p] = c THEN p ELSE IF m[p] = 0 THEN 0 ELSE f[p + 1]
    IN  f[s]

\* The character the loop stops on is never compared.
strrchr(m, s, c) ==
    LET f[x \in Nat \X Nat] ==           \* x is <<s, save>>
          IF m[x[1]] = 0 THEN x[2]
          ELSE f[<<x[1] + 1, IF m[x[1]] = c THEN x[1] ELSE x[2]>>]
    IN  f[<<s, 0>>]

\* The first position from s1 on whose character stops the scan.
scan_until(m, s1, stop(_)) ==
    LET f[p \in Nat] == IF stop(m[p]) THEN p ELSE f[p + 1] IN f[s1]
In(m, s2, c) == c # 0 /\ strchr(m, s2, c) # 0

strspn(m, s1, s2)  == scan_until(m, s1, LAMBDA c : ~In(m, s2, c)) - s1
strcspn(m, s1, s2) == scan_until(m, s1, LAMBDA c : c = 0 \/ In(m, s2, c)) - s1
strpbrk(m, s1, s2) ==
    LET p == scan_until(m, s1, LAMBDA c : c = 0 \/ In(m, s2, c))
    IN  IF m[p] = 0 THEN 0 ELSE p

\* Mutated form of strstr: the last possible place is not tried.
strstr_short(m, haystack, needle) ==
    LET nlen == strlen(m, needle)
        end  == haystack + strlen(m, haystack)
        f[p \in Nat] ==
          IF end - p <= nlen THEN 0
          ELSE IF memcmp(m, p, needle, nlen) = 0 THEN p ELSE f[p + 1]
    IN  f[haystack]

\* haystack goes up as hlen goes down: hlen is always end - p.
strstr(m, haystack, needle) ==
    LET nlen == strlen(m, needle)
        end  == haystack + strlen(m, haystack)
        f[p \in Nat] ==
          IF end - p < nlen THEN 0
          ELSE IF memcmp(m, p, needle, nlen) = 0 THEN p ELSE f[p + 1]
    IN  f[haystack]

-----------------------------------------------------------------------------
\* Writing

\* The loop *to++ = *from++, n times.
CopyUp(m, to, from, n) ==
    LET f[k \in 0..n] == IF k = 0 THEN m
                         ELSE [f[k - 1] EXCEPT ![to + k - 1] = f[k - 1][from + k - 1]]
    IN  f[n]

strcpy(m, to, from) == CopyUp(m, to, from, strlen(m, from) + 1)

strcat(m, s, add) == CopyUp(m, s + strlen(m, s), add, strlen(m, add) + 1)

\* Mutated form of strncat: the NUL is written only if the source had one.
strncat_unended(m, dst, s, n) ==
    IF n > strlen(m, s) THEN strcat(m, dst, s)
    ELSE CopyUp(m, dst + strlen(m, dst), s, n)

strncat(m, dst, s, n) ==
    LET d == dst + strlen(m, dst)
        k == IF n < strlen(m, s) THEN n ELSE strlen(m, s)
    IN  IF n = 0 THEN m ELSE [CopyUp(m, d, s, k) EXCEPT ![d + k] = 0]

memset(m, to, c, len) == [a \in Addr |-> IF a \in to..(to + len - 1) THEN c ELSE m[a]]

\* The first loop leaves count at what is still to be padded, or, when it ran
\* out before the NUL, decrements it once more, past 0: the second loop then
\* writes NULs over everything that follows.
strncpy(m, to, from, n) ==
    LET len == strlen(m, from)
    IN  IF len < n THEN memset(strcpy(m, to, from), to + len + 1, 0, n - len - 1)
        ELSE memset(CopyUp(m, to, from, n), to + n, 0, MEM)

-----------------------------------------------------------------------------
\* A call is made with strings, on memory that exists, and with a destination
\* that does not overlap its source: what the C standard asks of the caller.
IsString(m, s) == \E p \in s..MEM : m[p] = 0
Apart(a, b, n) == a + n <= b \/ b + n <= a
Fits(a, n) == a + n - 1 <= MEM

CanCopy(m, to, from, n) == Fits(to, n) /\ Apart(to, from, n)
Can_strcpy(m, to, from) ==
    IsString(m, from) /\ CanCopy(m, to, from, strlen(m, from) + 1)
Can_strcat(m, s, add) ==
    /\ IsString(m, s) /\ IsString(m, add)
    /\ CanCopy(m, s + strlen(m, s), add, strlen(m, add) + 1)
Can_strncat(m, dst, s, n) ==
    /\ IsString(m, dst) /\ IsString(m, s)
    /\ CanCopy(m, dst + strlen(m, dst), s,
               1 + IF n < strlen(m, s) THEN n ELSE strlen(m, s))
Can_strncpy(m, to, from, n) == IsString(m, from) /\ CanCopy(m, to, from, n)

Leave(m) ==        \* a call made and returned, leaving memory m
    /\ ~moving /\ mem' = [a \in Addr |-> m[a]] /\ before' = mem'
    /\ UNCHANGED <<moving, dest, src, count, i>>

StrCpy  == \E a, b \in Addr :
               /\ Can_strcpy(mem, a, b) /\ Leave(strcpy(mem, a, b))
StrCat  == \E a, b \in Addr :
               /\ Can_strcat(mem, a, b) /\ Leave(strcat(mem, a, b))
StrNCat == \E a, b \in Addr, n \in 0..MEM :
               /\ Can_strncat(mem, a, b, n) /\ Leave(strncat(mem, a, b, n))
StrNCpy == \E a, b \in Addr, n \in 0..MEM :
               /\ Can_strncpy(mem, a, b, n) /\ Leave(strncpy(mem, a, b, n))
MemSet  == \E a \in Addr, n \in 0..MEM, c \in Char :
               /\ Fits(a, n) /\ Leave(memset(mem, a, c, n))

\* Mutated form of Upwards: every pair of regions is filled from below.
Upwards_always == TRUE

\* The lower destination is filled upwards, the higher one downwards.
Upwards == dest < src

\* memmove, and memcpy which is memmove.
memmove(d, s, n) ==
    /\ ~moving /\ Fits(d, n) /\ Fits(s, n)
    /\ moving' = TRUE
    /\ dest' = d /\ src' = s /\ count' = n
    /\ i' = IF Upwards' THEN 0 ELSE n
    /\ UNCHANGED <<mem, before>>

move_up ==
    /\ moving /\ Upwards /\ i # count
    /\ mem' = [mem EXCEPT ![dest + i] = mem[src + i]]
    /\ i' = i + 1
    /\ UNCHANGED <<moving, dest, src, count, before>>

move_down ==
    /\ moving /\ ~Upwards /\ i # 0
    /\ mem' = [mem EXCEPT ![dest + i - 1] = mem[src + i - 1]]
    /\ i' = i - 1
    /\ UNCHANGED <<moving, dest, src, count, before>>

Moved == moving /\ i = (IF Upwards THEN count ELSE 0)

move_return ==
    /\ Moved
    /\ moving' = FALSE /\ dest' = 1 /\ src' = 1 /\ count' = 0 /\ i' = 0
    /\ before' = mem /\ UNCHANGED mem

Init ==
    /\ mem \in [Addr -> Char] /\ before = mem
    /\ moving = FALSE /\ dest = 1 /\ src = 1 /\ count = 0 /\ i = 0

Next ==
    \/ StrCpy \/ StrCat \/ StrNCat \/ StrNCpy \/ MemSet
    \/ \E d, s \in Addr, n \in 0..MEM : memmove(d, s, n)
    \/ move_up \/ move_down \/ move_return

Spec == Init /\ [][Next]_vars

-----------------------------------------------------------------------------
\* What the functions promise, over the text of a string.

EndOf(m, s) == CHOOSE p \in s..MEM : m[p] = 0 /\ \A q \in s..(p - 1) : m[q] # 0
Text(m, s)  == [k \in 1..(EndOf(m, s) - s) |-> m[s + k - 1]]
Strings(m)  == {s \in Addr : IsString(m, s)}
Places(m, s) == s..(EndOf(m, s) - 1)          \* the addresses of its characters
First(S) == IF S = {} THEN 0 ELSE CHOOSE p \in S : \A q \in S : p <= q
Last(S)  == IF S = {} THEN 0 ELSE CHOOSE p \in S : \A q \in S : p >= q

TypeOK ==
    /\ mem \in [Addr -> Char] /\ before \in [Addr -> Char]
    /\ moving \in BOOLEAN
    /\ dest \in Addr /\ src \in Addr /\ count \in 0..MEM /\ i \in 0..count

\* strcmp, strncmp and memcmp tell how two texts stand in the lexicographic
\* order, for all of them or for their first n characters, and a text that is a
\* prefix of the other comes first (strcmp.c:50, strncmp.c:21, memcmp.c:51).
Before(a, b, n) ==      \* text a is below text b within the first n characters
    \E k \in 1..n :
        /\ \A j \in 1..(k - 1) : j \in DOMAIN a /\ j \in DOMAIN b /\ a[j] = b[j]
        /\ k \in DOMAIN b
        /\ k \in DOMAIN a => a[k] < b[k]
Agrees(result, a, b, n) ==
    /\ result < 0 <=> Before(a, b, n)
    /\ result > 0 <=> Before(b, a, n)
ComparesLexically ==
    \A a, b \in Strings(mem) :
        /\ Agrees(strcmp(mem, a, b), Text(mem, a), Text(mem, b), MEM)
        /\ \A n \in 0..MEM :
               Agrees(strncmp(mem, a, b, n), Text(mem, a), Text(mem, b), n)

\* The searches find the first place, the last one, or none: of a character, of
\* any character of a set, of a text (strchr.c:24, strrchr.c:24, strspn.c:46,
\* strcspn.c:49, strpbrk.c:46, strstr.c:21).  strchr finds the terminating NUL
\* too, and strrchr does not.
SearchesFindTheirPlace ==
    \A s \in Strings(mem) :
        /\ \A c \in Char :
              LET at == {p \in Places(mem, s) : mem[p] = c}
              IN  /\ strchr(mem, s, c) = IF c = 0 THEN EndOf(mem, s) ELSE First(at)
                  /\ strrchr(mem, s, c) = Last(at)
        /\ \A t \in Strings(mem) :
              LET set == {mem[p] : p \in Places(mem, t)}
                  at  == {p \in Places(mem, s) : mem[p] \in set}
                  off == {p \in s..EndOf(mem, s) : mem[p] \notin set}
                  n   == EndOf(mem, t) - t
                  hits == {p \in s..(EndOf(mem, s) - n) :
                              \A k \in 0..(n - 1) : mem[p + k] = mem[t + k]}
              IN  /\ strpbrk(mem, s, t) = First(at)
                  /\ strcspn(mem, s, t) = (IF at = {} THEN EndOf(mem, s) ELSE First(at)) - s
                  /\ strspn(mem, s, t) = First(off) - s
                  /\ strstr(mem, s, t) = First(hits)

\* A copy leaves the text it was asked for, and no address outside the bytes it
\* may write changes (strcpy.c:45, strcat.c:36, strncat.c:50).
Leaves(m, to, text, from) ==       \* m: text from "to" on, the rest as in mem but
    /\ IsString(m, to) /\ Text(m, to) = text      \* for what follows "from"
    /\ \A a \in Addr \ (from..EndOf(m, to)) : m[a] = mem[a]
Joined(a, b) == [k \in 1..(EndOf(mem, a) - a + b[1]) |->
                    IF k <= EndOf(mem, a) - a THEN mem[a + k - 1]
                    ELSE mem[b[2] + k - 1 - (EndOf(mem, a) - a)]]
CopyLeavesTheText ==
    \A a, b \in Addr :
        /\ Can_strcpy(mem, a, b) => Leaves(strcpy(mem, a, b), a, Text(mem, b), a)
        /\ Can_strcat(mem, a, b) =>
              Leaves(strcat(mem, a, b), a, Joined(a, <<EndOf(mem, b) - b, b>>), EndOf(mem, a))
        /\ \A n \in 0..MEM : Can_strncat(mem, a, b, n) =>
              Leaves(strncat(mem, a, b, n), a,
                     Joined(a, <<IF n < EndOf(mem, b) - b THEN n ELSE EndOf(mem, b) - b, b>>),
                     EndOf(mem, a))

\* strncpy writes exactly count characters, the text and NULs, if the NUL of the
\* source is among the first count; if it is not, the count wraps and everything
\* after the destination is cleared (strncpy.c:51-54).  The file's description
\* (strncpy.c:38-41) promises the first part for every source.
StrncpyNeedsTheNul ==
    \A a, b \in Addr, n \in 0..MEM : Can_strncpy(mem, a, b, n) =>
        LET m == strncpy(mem, a, b, n)  len == EndOf(mem, b) - b
        IN  /\ \A k \in 0..(n - 1) : m[a + k] = IF k < len THEN mem[b + k] ELSE 0
            /\ \A p \in Addr : p < a => m[p] = mem[p]
            /\ \A p \in Addr : p >= a + n => m[p] = IF len < n THEN mem[p] ELSE 0

\* On every memory the functions that only read give the right answer (libc/string).
ReadersAreRight == ~moving => ComparesLexically /\ SearchesFindTheirPlace

\* On every memory the functions that copy leave the right text and touch nothing
\* else, but for strncpy without its NUL (libc/string).
CopiesLeaveTheText == ~moving => CopyLeavesTheText /\ StrncpyNeedsTheNul

\* When memmove is done the destination holds what the source held when it was
\* called, overlapping or not, and nothing else changed (memmove.c:9-26).
MoveIsSimultaneous ==
    Moved => mem = [a \in Addr |-> IF a \in dest..(dest + count - 1)
                                      THEN before[a - dest + src] ELSE before[a]]
=============================================================================
