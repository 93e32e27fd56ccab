------------------------------ MODULE LibStdio ------------------------------
(***************************************************************************)
(* stdio of the tasks' C library: printf and its line buffer, character by *)
(* character, down to the write system calls it makes; sprintf; hexdump,   *)
(* which is a series of printf calls.                                      *)
(***************************************************************************)
EXTENDS LibFormat

CONSTANTS
    PRINTF_BUFMAX,  \* size of printf's buffer (128)
    Prints,         \* printf calls: records of a format and its arguments
    Directives,     \* sprintf calls of one directive each, see FormatOf
    Dumps           \* memory given to hexdump
ASSUME BufAssumption == PRINTF_BUFMAX \in Nat \ {0}
\* The arguments of a printf are those its format asks for, so that it has a text.
ASSUME PrintsAssumption == \A p \in Prints : _doprnt(p.fmt, p.args, 0) \in Seq(Nat)
ASSUME DumpsAssumption  == \A b \in Dumps : b \in Seq(Nat)

VARIABLES
    call,       \* the library call in progress or just returned, or None
    todo,       \* texts that printf calls have still to put, first one first
    buf,        \* state.buf[0 .. state.index-1] of the printf in progress
    writes,     \* what each write system call of this call put on the console
    result      \* what sprintf stored
stdio_vars == <<call, todo, buf, writes, result>>

None == [f |-> "none"]

-----------------------------------------------------------------------------
flush == Append(writes, buf)
puts(s) == <<s, <<10>>>>
\* putchar hands over the bytes of an int, and write stops at the first NUL.
putchar(c) == <<IF c = NUL THEN <<>> ELSE <<c>>>>

\* Mutated form of printf_char: the character that found the buffer full is lost.
printf_char_lost ==
    /\ todo # <<>> /\ Head(todo) # <<>>
    /\ LET c == Head(Head(todo))
       IN  IF c = 10
             THEN writes' = writes \o puts(buf) /\ buf' = <<>>
           ELSE IF c = NUL \/ Len(buf) >= PRINTF_BUFMAX - 1
             THEN writes' = flush /\ buf' = <<>>
           ELSE UNCHANGED writes /\ buf' = Append(buf, c)
    /\ todo' = <<Tail(Head(todo))>> \o Tail(todo)
    /\ UNCHANGED <<call, result>>

printf_char ==
    /\ todo # <<>> /\ Head(todo) # <<>>
    /\ LET c == Head(Head(todo))
       IN  IF c = 10
             THEN writes' = writes \o puts(buf) /\ buf' = <<>>
           ELSE IF c = NUL \/ Len(buf) >= PRINTF_BUFMAX - 1
             THEN writes' = flush \o putchar(c) /\ buf' = <<>>
           ELSE UNCHANGED writes /\ buf' = Append(buf, c)
    /\ todo' = <<Tail(Head(todo))>> \o Tail(todo)
    /\ UNCHANGED <<call, result>>

\* The end of vprintf.
vprintf_end ==
    /\ todo # <<>> /\ Head(todo) = <<>>
    /\ writes' = IF buf = <<>> THEN writes ELSE flush
    /\ buf' = <<>> /\ todo' = Tail(todo)
    /\ UNCHANGED <<call, result>>

printf(p) ==
    /\ call = None
    /\ call' = [f |-> "printf", fmt |-> p.fmt, args |-> p.args]
    /\ todo' = <<_doprnt(p.fmt, p.args, 0)>>
    /\ UNCHANGED <<buf, writes, result>>

-----------------------------------------------------------------------------
\* savechar under a limit; -1 is no limit.
Saved(text, max) == IF max = -1 THEN text ELSE SubSeq(text, 1, Min2(max, Len(text)))
vsnprintf(size, fmt, args) == Saved(_doprnt(fmt, args, 0), size)
vsprintf(fmt, args) == Saved(_doprnt(fmt, args, 0), -1)

FormatOf(x) ==
    Codes("%") \o x.flags \o (IF x.zero THEN Codes("0") ELSE <<>>)
    \o (IF x.star THEN Codes("*") ELSE IF x.width = 0 THEN <<>> ELSE printnum(x.width, 10))
    \o (IF x.prec = -1 THEN <<>> ELSE Codes(".") \o printnum(x.prec, 10)) \o <<x.conv>>
ArgsOf(x) == (IF x.star THEN <<x.width>> ELSE <<>>) \o <<x.arg>>

sprintf(x) ==
    /\ call = None
    /\ call' = [f |-> "sprintf", d |-> x]
    /\ result' = vsprintf(FormatOf(x), ArgsOf(x))
    /\ UNCHANGED <<todo, buf, writes>>

-----------------------------------------------------------------------------
\* One row of hexdump, a printf call per piece: 16 bytes from b[off+1] on, in
\* hexadecimal in groups of four and as text.
HexByte(b, n)  == IF n > Len(b) THEN Codes("  ") ELSE _doprnt(Codes("%02x"), <<b[n]>>, 0)
TextByte(b, n) == IF n > Len(b) THEN Codes(" ")
                  ELSE IF isgraph(b[n]) THEN <<b[n]>> ELSE Codes(".")

HexRow(b, off) ==
    <<_doprnt(Codes("| %08lx      "), <<off>>, 0)>>
    \o [k \in 1..32 |-> IF k % 2 = 0 THEN HexByte(b, off + k \div 2)
                        ELSE IF k % 8 = 1 THEN Codes(" ") ELSE <<>>]
    \o <<Spaces(7)>> \o [k \in 1..16 |-> TextByte(b, off + k)] \o <<Codes(" |") \o <<10>>>>

Border(left, right) == <<left>> \o Repeat(Ch["-"], 75) \o <<right, 10>>

hexdump(b) ==
    LET rows == (Len(b) + 15) \div 16
        upto[n \in 0..rows] == IF n = 0 THEN <<>> ELSE upto[n - 1] \o HexRow(b, 16 * (n - 1))
    IN  /\ call = None
        /\ call' = [f |-> "hexdump", b |-> b]
        /\ todo' = <<Border(Ch["."], Ch["."])>> \o upto[rows] \o <<Border(96, Ch["'"])>>
        /\ UNCHANGED <<buf, writes, result>>

-----------------------------------------------------------------------------
Returned == call # None /\ todo = <<>>

\* The caller goes on: nothing of the call is left but what it stored or wrote.
Return ==
    /\ Returned
    /\ call' = None /\ buf' = <<>> /\ writes' = <<>> /\ result' = <<>>
    /\ UNCHANGED todo

StdioInit == call = None /\ todo = <<>> /\ buf = <<>> /\ writes = <<>> /\ result = <<>>

StdioNext ==
    \/ \E p \in Prints : printf(p)
    \/ \E x \in Directives : sprintf(x)
    \/ \E b \in Dumps : hexdump(b)
    \/ printf_char \/ vprintf_end \/ Return

StdioSpec == StdioInit /\ [][StdioNext]_stdio_vars

-----------------------------------------------------------------------------
Concat(ss) == LET f[k \in 0..Len(ss)] == IF k = 0 THEN <<>> ELSE f[k - 1] \o ss[k]
              IN  f[Len(ss)]
Shown(text) ==      \* the terminal shows no NUL
    LET f[k \in 0..Len(text)] == IF k = 0 THEN <<>>
                                 ELSE IF text[k] = NUL THEN f[k - 1]
                                 ELSE Append(f[k - 1], text[k])
    IN  f[Len(text)]
Console == Concat(writes)
\* The lines of a text, the newlines taken off, the last one perhaps empty.
Lines(text) ==
    LET cut == {0, Len(text) + 1} \cup {k \in 1..Len(text) : text[k] = 10}
        after(a) == CHOOSE c \in cut : c > a /\ \A d \in cut : d > a => c <= d
        from[a \in Nat] == IF a > Len(text) THEN <<>>
                           ELSE <<SubSeq(text, a + 1, after(a) - 1)>> \o from[after(a)]
    IN  from[0]

\* However long the text and wherever the buffer fills up, what printf has
\* written, holds in the buffer and has still to put is the whole text, in order
\* (printf.c:52-72), and nothing stays in the buffer.
NothingIsLost ==
    /\ call.f = "printf" =>
          Console \o buf \o Shown(Concat(todo)) = Shown(vsprintf(call.fmt, call.args))
    /\ Returned => buf = <<>>

\* The parts of a directive, and its text without a width.
IsNumber(x) == x.conv \in SignedConv \cup UnsignedConv
Flag(x, c)  == \E k \in DOMAIN x.flags : x.flags[k] = Ch[c]
Left(x)     == Flag(x, "-") # (x.width < 0)
FallsShort(x) == x.conv = Ch["s"] /\ Left(x) /\ x.prec >= 0 /\ Len(x.arg) > x.prec
Digits(x) == printnum(IF x.conv \in SignedConv THEN Max2(x.arg, -x.arg) ELSE Unsigned(x.arg),
                      Base(x.conv, 0))
Bare(x) == vsprintf(FormatOf([x EXCEPT !.width = 0, !.star = FALSE]), <<x.arg>>)
Padded(x, bare, lead, pad) ==       \* lead: the length of sign and prefix
    IF IsNumber(x) /\ x.zero
      THEN SubSeq(bare, 1, lead) \o Repeat(Ch["0"], pad) \o SubSeq(bare, lead + 1, Len(bare))
    ELSE IF Left(x) THEN bare \o Spaces(pad) ELSE Spaces(pad) \o bare
PadsTo(x, bare, width) ==
    result = Padded(x, bare, IF IsNumber(x) THEN Len(bare) - Len(Digits(x)) ELSE 0,
                    width - Len(bare))
\* Columns line up.  A field width only pads: blanks on the left, or on the right
\* under "-", or zeros after the sign and the prefix (doprnt.c:582-609).  One case
\* falls one short: a string under "-" that its precision cuts (doprnt.c:469-480).
\* And every row of a hexdump is as long as the borders, whatever the length of the
\* memory (hexdump.c:44-70).
WidthOnlyPads ==
    /\ call.f = "sprintf" =>
          PadsTo(call.d, Bare(call.d),
                 Max2(call.d.width, -call.d.width) - (IF FallsShort(call.d) THEN 1 ELSE 0))
    /\ Returned /\ call.f = "hexdump" =>
          LET lines == Lines(Console)
          IN  /\ Len(lines) = (Len(call.b) + 15) \div 16 + 3
              /\ \A k \in 1..(Len(lines) - 1) : Len(lines[k]) = 77

\* What is printed of a number reads back as that number, by strtol and strtoul
\* in its base and, where the base shows, in base 0, and by sscanf and atoi where
\* they take what was printed (strtol.c:26, strtoul.c:26, doscan.c:77-138,
\* atoi.c:14).  A plus sign does not read back: strtol stops at it (strtol.c:35).
PrintedNumbersReadBack ==
    call.f = "sprintf" /\ IsNumber(call.d) =>
        LET x == call.d  base == Base(x.conv, 0)
            plain == x.flags = <<>> /\ ~x.zero /\ x.width = 0
            bases == IF (Flag(x, "#") /\ base # 10 /\ x.arg # 0) \/ (base = 10 /\ ~x.zero) THEN {base, 0} ELSE {base}
        IN  /\ x.conv \in SignedConv =>
                  \A b \in bases :
                     strtol(result, b).value =
                        IF x.arg >= 0 /\ Flag(x, "+") THEN 0 ELSE x.arg
            /\ x.conv \in UnsignedConv =>
                  \A b \in bases : strtoul(result, b).value = Unsigned(x.arg)
            /\ x.conv = Ch["d"] /\ ~Flag(x, "+") =>
                  _doscan(Codes(" %d"), result) = [got |-> <<x.arg>>, vals |-> 1, past |-> FALSE]
            /\ x.conv = Ch["x"] /\ plain =>
                  _doscan(Codes("%x"), result).got = <<Signed(x.arg)>>
            /\ x.conv = Ch["d"] /\ plain /\ x.arg >= 0 => atoi(result) = x.arg

=============================================================================
