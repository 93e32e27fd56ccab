------------------------------ MODULE LibFormat ------------------------------
(***************************************************************************)
(* stdio/doprnt.c and stdio/doscan.c: what a format makes of its arguments *)
(* and of an input line.  An argument is an integer, a string, a register  *)
(* description (%b) or a thread id (%t).                                   *)
(***************************************************************************)
EXTENDS LibNumber

Min2(a, b)   == IF a < b THEN a ELSE b
Max2(a, b)   == IF a > b THEN a ELSE b
Repeat(c, n) == [k \in 1..Max2(n, 0) |-> c]     \* none when n is not positive
Spaces(n)    == Repeat(Ch[" "], n)

digs == Codes("0123456789abcdef")

printnum(u, base) ==
    LET f[v \in Nat] == IF v < base THEN <<digs[v + 1]>>
                        ELSE Append(f[v \div base], digs[(v % base) + 1])
    IN  f[u]

printnum_16(u) == [k \in 1..8 |-> digs[((u \div (16 ^ (8 - k))) % 16) + 1]]

-----------------------------------------------------------------------------
\* A directive, from the character after the %.

FlagChars == {Ch["#"], Ch["-"], Ch["+"], Ch[" "]}

\* A number in the format, or * and the next argument, or neither.
Field(fmt, p, args, default) ==
    IF isdigit(At(fmt, p))
      THEN LET q == Skip(fmt, p, isdigit)
           IN  [n |-> atol(SubSeq(fmt, p, q - 1)), next |-> q, args |-> args]
    ELSE IF At(fmt, p) = Ch["*"]
      THEN [n |-> Head(args), next |-> p + 1, args |-> Tail(args)]
    ELSE [n |-> default, next |-> p, args |-> args]

\* The parts in the order they are read: flags, 0, width, precision, l's.
AsDirective(fmt, flags, w, prec, conv) ==
    [conv |-> At(fmt, conv), next |-> conv + 1, args |-> prec.args,
     length |-> Max2(w.n, -w.n), prec |-> prec.n,
     ladjust |-> (Ch["-"] \in flags) # (w.n < 0),
     padc |-> IF Ch["0"] \in flags THEN Ch["0"] ELSE Ch[" "],
     plus_sign |-> IF Ch["+"] \in flags THEN <<Ch["+"]>>
                   ELSE IF Ch[" "] \in flags THEN <<Ch[" "]>> ELSE <<>>,
     altfmt |-> Ch["#"] \in flags, longopt |-> conv - prec.next]
Conversion(fmt, flags, w, prec) ==
    AsDirective(fmt, flags, w, prec, Skip(fmt, prec.next, LAMBDA c : c = Ch["l"]))
Precision(fmt, flags, w) ==
    Conversion(fmt, flags, w, IF At(fmt, w.next) = Ch["."]
                                THEN Field(fmt, w.next + 1, w.args, -1)
                                ELSE [w EXCEPT !.n = -1])
Width(fmt, flags, p, args) == Precision(fmt, flags, Field(fmt, p, args, 0))
Flags(fmt, at, j, args) ==
    Width(fmt, {fmt[k] : k \in at..(IF At(fmt, j) = Ch["0"] THEN j ELSE j - 1)},
          IF At(fmt, j) = Ch["0"] THEN j + 1 ELSE j, args)
Directive(fmt, at, args) ==
    Flags(fmt, at, Skip(fmt, at, LAMBDA c : c \in FlagChars), args)

-----------------------------------------------------------------------------
\* The conversions.

\* Mutated form of print_num: zeros are padded before the sign and the prefix.
print_num_zerosfirst(d, u, base, sign) ==
    LET prefix == IF u = 0 \/ ~d.altfmt THEN <<>>
                  ELSE IF base = 8 THEN Codes("0")
                  ELSE IF base = 16 THEN Codes("0x") ELSE <<>>
        body == sign \o prefix \o printnum(u, base)
        pad == d.length - Len(body)
    IN  IF d.padc = Ch["0"] THEN Repeat(d.padc, pad) \o body
        ELSE IF d.ladjust THEN body \o Spaces(pad) ELSE Spaces(pad) \o body

\* Blanks go before the sign and the prefix, zeros after them.
print_num(d, u, base, sign) ==
    LET prefix == IF u = 0 \/ ~d.altfmt THEN <<>>
                  ELSE IF base = 8 THEN Codes("0")
                  ELSE IF base = 16 THEN Codes("0x") ELSE <<>>
        number == printnum(u, base)
        pad == d.length - Len(number) - Len(sign) - Len(prefix)
    IN  IF d.padc = Ch["0"]
          THEN sign \o prefix \o Repeat(d.padc, pad) \o number
        ELSE IF d.ladjust
          THEN sign \o prefix \o number \o Spaces(pad)
        ELSE Spaces(pad) \o sign \o prefix \o number

\* long long has twice the bits of long, so a negated long does not wrap.
print_signed(d, n, base) ==
    IF n >= 0 THEN print_num(d, n, base, d.plus_sign)
              ELSE print_num(d, -n, base, <<Ch["-"]>>)
print_unsigned(d, n, base) ==
    print_num(d, IF d.longopt > 1 THEN n % (WORD * WORD) ELSE Unsigned(n), base, <<>>)

\* A cut string counts one character more than it shows.
print_s(d, s) ==
    LET shown == IF d.prec = -1 THEN Len(s) ELSE Min2(Len(s), Max2(d.prec, 0))
        n     == IF shown = Len(s) THEN shown ELSE shown + 1
        text  == SubSeq(s, 1, shown)
    IN  IF d.ladjust THEN text \o Spaces(d.length - n)
                     ELSE Spaces(d.length - shown) \o text

\* A register: its value, and the names of its bits that are set and the values
\* of its fields (bit down to low; low = 0 for a single bit).
print_b(u, reg) ==
    LET set(x)  == (u \div (2 ^ (x.bit - 1))) % 2 = 1
        item(x) == IF x.low = 0 THEN x.name
                   ELSE x.name \o printnum((u \div (2 ^ (x.low - 1))) % (2 ^ (x.bit - x.low + 1)),
                                           reg.base)
        shown == SelectSeq(reg.fields, LAMBDA x : x.low # 0 \/ set(x))
        list[k \in 0..Len(shown)] ==
            IF k = 0 THEN <<>>
            ELSE list[k - 1] \o <<IF k = 1 THEN Ch["<"] ELSE Ch[","]>> \o item(shown[k])
    IN  printnum(u, reg.base) \o
        IF u = 0 \/ shown = <<>> THEN <<>> ELSE Append(list[Len(shown)], Ch[">"])

\* A thread id, "task.thread" in hexadecimal, or its two words.
Bracketed(d, text) == IF d.altfmt THEN Codes("[") \o text \o Codes("]") ELSE text
print_t_long(d, id) ==
    LET text == Bracketed(d, printnum_16(id.high) \o Codes(":") \o printnum_16(id.low))
        pad  == Spaces(d.length - Len(text))
    IN  IF d.ladjust THEN text \o pad ELSE pad \o text
print_t(d, id) ==
    LET m      == IF id.lthread >= 16 THEN 2 ELSE 1
        n0     == (IF d.altfmt THEN 4 ELSE 2) + (IF id.task >= 16 THEN 1 ELSE 0)
                                              + (IF id.task >= 256 THEN 1 ELSE 0)
        left   == IF d.ladjust THEN 0 ELSE Max2(d.length - n0 - 2, 0)
        n1     == n0 + left
        middle == IF d.ladjust THEN 0 ELSE Max2(d.length - n1 - m, 0)
        right  == IF d.ladjust THEN Max2(d.length - n0 - m, 0) ELSE 0
        zeros  == d.padc = Ch["0"]
    IN  (IF zeros THEN <<>> ELSE Spaces(left))
        \o Bracketed(d, (IF zeros THEN Repeat(Ch["0"], left) ELSE <<>>)
                        \o printnum(id.task, 16) \o Codes(".")
                        \o Repeat(d.padc, middle) \o printnum(id.lthread, 16))
        \o Spaces(right)

SignedConv   == {Ch["d"], Ch["D"], Ch["z"], Ch["Z"], Ch["r"], Ch["R"]}
UnsignedConv == {Ch["o"], Ch["O"], Ch["u"], Ch["U"], Ch["x"], Ch["X"], Ch["n"], Ch["N"]}
Base(conv, radix) == CASE tolower(conv) = Ch["o"] -> 8
                       [] tolower(conv) \in {Ch["d"], Ch["u"]} -> 10
                       [] tolower(conv) \in {Ch["x"], Ch["z"]} -> 16
                       [] OTHER -> radix

\* How many arguments a conversion takes, and the text it gives.
Takes(conv) == IF tolower(conv) = Ch["b"] THEN 2
               ELSE IF conv \in SignedConv \cup UnsignedConv
                                \cup {Ch["c"], Ch["t"], Ch["s"], Ch["p"]} THEN 1
               ELSE 0
Convert(d, args, radix) ==
    LET c == d.conv
    IN  CASE tolower(c) = Ch["b"] -> print_b(Unsigned(args[1]), args[2])
          [] c = Ch["c"] -> <<args[1] % 256>>
          [] c = Ch["t"] -> IF d.longopt > 0 THEN print_t_long(d, args[1])
                                             ELSE print_t(d, args[1])
          [] c = Ch["s"] -> print_s(d, args[1])
          [] c = Ch["p"] -> Codes("0x") \o print_unsigned(
                                [d EXCEPT !.padc = Ch["0"], !.length = 8], args[1], 16)
          [] c \in SignedConv   -> print_signed(d, args[1], Base(c, radix))
          [] c \in UnsignedConv -> print_unsigned(d, args[1], Base(c, radix))
          [] c = NUL -> <<>>
          [] OTHER -> <<c>>

_doprnt(fmt, args, radix) ==
    LET \* The text that fmt gives from position at on, after k arguments.
        from[at \in Nat, k \in Nat] ==
            LET Then(d) == Convert(d, d.args, radix) \o
                           from[d.next, Len(args) - Len(d.args) + Takes(d.conv)]
            IN  IF At(fmt, at) = NUL THEN <<>>
                ELSE IF At(fmt, at) # Ch["%"] THEN <<fmt[at]>> \o from[at + 1, k]
                ELSE Then(Directive(fmt, at + 1, SubSeq(args, k + 1, Len(args))))
    IN  from[1, 0]

-----------------------------------------------------------------------------
\* Scanning.  "got" is the sequence of the values stored, vals what _doscan
\* returns, and past tells that %s ran over the end of the input, which only
\* white space stops.

ScanNumber(s, p, base) ==
    LET neg == At(s, p) = Ch["-"]
        r   == ReadDigits(s, IF neg THEN p + 1 ELSE p, base)
    IN  [r EXCEPT !.value = Signed(IF neg THEN -r.value ELSE r.value)]
ScanWord(s, p) ==
    LET q == Skip(s, p, LAMBDA c : c # NUL /\ ~isspace(c))
    IN  [value |-> SubSeq(s, p, q - 1), end |-> q]

\* What conversion c makes of the input from p on.
Scan(c, s, p) == CASE c = Ch["d"] -> ScanNumber(s, p, 10)
                   [] c = Ch["x"] -> ScanNumber(s, p, 16)
                   [] c = Ch["s"] -> ScanWord(s, p)
                   [] OTHER -> [value |-> 0, end |-> p]

_doscan(fmt, s) ==
    LET Got(c, discard, r, rest) ==
            [got  |-> IF discard \/ c \notin {Ch["d"], Ch["x"], Ch["s"]} THEN rest.got
                      ELSE <<r.value>> \o rest.got,
             vals |-> rest.vals + (IF discard THEN 0 ELSE 1), past |-> rest.past]
        end == [got |-> <<>>, vals |-> 0, past |-> FALSE]
        \* What is stored from position at of the format and p of the input on.
        from[at \in Nat, p \in Nat] ==
            LET Then(j, c, r) ==
                    Got(c, j > at + 1, r, IF c = Ch["s"] /\ At(s, r.end) = NUL
                                            THEN [end EXCEPT !.past = TRUE]
                                            ELSE from[j + 1, r.end])
                Read(j) == Then(j, At(fmt, j), Scan(At(fmt, j), s, p))
            IN  IF At(fmt, at) = NUL THEN end
                ELSE IF isspace(At(fmt, at)) THEN from[at + 1, Skip(s, p, isspace)]
                ELSE IF At(fmt, at) # Ch["%"]
                  THEN IF At(fmt, at) = At(s, p) THEN from[at + 1, p + 1] ELSE end
                ELSE Read(Skip(fmt, at + 1, LAMBDA x : x = Ch["*"]))
    IN  from[1, 1]
=============================================================================
