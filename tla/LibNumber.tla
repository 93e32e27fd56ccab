------------------------------ MODULE LibNumber ------------------------------
(***************************************************************************)
(* libc/stdlib: numbers read from text.  A C string is the sequence of its *)
(* characters; the position after the last one holds the NUL.  An int and  *)
(* a long have BITS bits, and a value too large for them wraps.            *)
(***************************************************************************)
EXTENDS CType

CONSTANT BITS
ASSUME BitsAssumption == BITS \in Nat \ {0}

WORD == 2 ^ BITS
Unsigned(n) == n % WORD
Signed(n)   == IF (n % WORD) < (WORD \div 2) THEN n % WORD ELSE (n % WORD) - WORD

At(s, p) == IF p \in DOMAIN s THEN s[p] ELSE NUL

\* The first position from p on whose character fails the test.
Skip(s, p, test(_)) ==
    LET f[q \in Nat] == IF test(At(s, q)) THEN f[q + 1] ELSE q IN f[p]

\* The value of a digit in any base, or a value no base has.
Digit(c) == IF isdigit(c) THEN c - Ch["0"]
            ELSE IF isalpha(c) THEN tolower(c) - Ch["a"] + 10
            ELSE 99

\* The loop over the digits from p on: their value, and where they end.
ReadDigits(s, p, base) ==
    LET f[q \in Nat, v \in Nat] ==
          IF Digit(At(s, q)) < base
            THEN f[q + 1, Unsigned(v * base + Digit(At(s, q)))]
            ELSE [value |-> v, end |-> q]
    IN  f[p, 0]

HexPrefix(s, p, base) ==
    base \in {0, 16} /\ At(s, p) = Ch["0"] /\ toupper(At(s, p + 1)) = Ch["X"]
\* Mutated form of BaseAt: a leading 0 does not make base 0 octal.
BaseAt_decimal(s, p, base) == IF base = 0 THEN 10 ELSE base

BaseAt(s, p, base) ==
    IF base # 0 THEN base ELSE IF At(s, p) = Ch["0"] THEN 8 ELSE 10

strtoul(s, base) ==
    LET p == Skip(s, 1, isspace)
    IN  IF HexPrefix(s, p, base) THEN ReadDigits(s, p + 2, 16)
        ELSE ReadDigits(s, p, BaseAt(s, p, base))

\* A minus is skipped, a plus is seen and not skipped.
strtol(s, base) ==
    LET p0  == Skip(s, 1, isspace)
        neg == At(s, p0) = Ch["-"]
        p   == IF neg THEN p0 + 1 ELSE p0
        r   == IF HexPrefix(s, p, base) THEN ReadDigits(s, p + 2, 16)
               ELSE ReadDigits(s, p, BaseAt(s, p, base))
    IN  [r EXCEPT !.value = Signed(IF neg THEN -r.value ELSE r.value)]

\* Neither white space nor a sign is read.
atol(s) == Signed(ReadDigits(s, 1, 10).value)
atoi(s) == atol(s)
=============================================================================
