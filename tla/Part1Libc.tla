------------------------------ MODULE Part1Libc ------------------------------
(***************************************************************************)
(* The C library of the lab4 part1 tasks. Its files are those of part2     *)
(* (LibString, LibNumber, LibRand, LibFormat, LibStdio), one by one, so    *)
(* each function is theirs.                                                *)
(***************************************************************************)
EXTENDS Integers

CONSTANTS MEM, Char, BITS, PRINTF_BUFMAX, Prints, Directives, Dumps,
          RWORD, RAND_STEP, LEFT, RIGHT

VARIABLES mem, moving, dest, src, count, i, before,    \* the string functions
          call, todo, buf, writes, result              \* stdio

LOCAL Str  == INSTANCE LibString
LOCAL Io   == INSTANCE LibStdio      \* and LibFormat, LibNumber and CType
LOCAL Rand == INSTANCE LibRand

\* include/ctype.h
isascii(c) == Io!isascii(c)
iscntrl(c) == Io!iscntrl(c)
isdigit(c) == Io!isdigit(c)
isgraph(c) == Io!isgraph(c)
islower(c) == Io!islower(c)
isprint(c) == Io!isprint(c)
isspace(c) == Io!isspace(c)
isupper(c) == Io!isupper(c)
isxdigit(c) == Io!isxdigit(c)
isalpha(c) == Io!isalpha(c)
isalnum(c) == Io!isalnum(c)
ispunct(c) == Io!ispunct(c)
toupper(c) == Io!toupper(c)
tolower(c) == Io!tolower(c)

\* string/
strlen(m, s) == Str!strlen(m, s)
strcmp(m, s1, s2) == Str!strcmp(m, s1, s2)
strncmp(m, s1, s2, n) == Str!strncmp(m, s1, s2, n)
memcmp(m, s1, s2, size) == Str!memcmp(m, s1, s2, size)
strchr(m, s, c) == Str!strchr(m, s, c)
strrchr(m, s, c) == Str!strrchr(m, s, c)
scan_until(m, s1, stop(_)) == Str!scan_until(m, s1, stop)
In(m, s2, c) == Str!In(m, s2, c)
strspn(m, s1, s2) == Str!strspn(m, s1, s2)
strcspn(m, s1, s2) == Str!strcspn(m, s1, s2)
strpbrk(m, s1, s2) == Str!strpbrk(m, s1, s2)
strstr(m, haystack, needle) == Str!strstr(m, haystack, needle)
CopyUp(m, to, from, n) == Str!CopyUp(m, to, from, n)
strcpy(m, to, from) == Str!strcpy(m, to, from)
strcat(m, s, add) == Str!strcat(m, s, add)
strncat(m, dst, s, n) == Str!strncat(m, dst, s, n)
memset(m, to, c, len) == Str!memset(m, to, c, len)
strncpy(m, to, from, n) == Str!strncpy(m, to, from, n)
Upwards == Str!Upwards
memmove(d, s, n) == Str!memmove(d, s, n)
move_up == Str!move_up
move_down == Str!move_down
Moved == Str!Moved
move_return == Str!move_return

\* stdlib/: numbers read from text
At(s, p) == Io!At(s, p)
Skip(s, p, test(_)) == Io!Skip(s, p, test)
Digit(c) == Io!Digit(c)
ReadDigits(s, p, base) == Io!ReadDigits(s, p, base)
HexPrefix(s, p, base) == Io!HexPrefix(s, p, base)
BaseAt(s, p, base) == Io!BaseAt(s, p, base)
strtoul(s, base) == Io!strtoul(s, base)
strtol(s, base) == Io!strtol(s, base)
atol(s) == Io!atol(s)
atoi(s) == Io!atoi(s)

\* stdlib/rand.c
Rotated(x) == Rand!Rotated(x)
srand(new_seed) == Rand!srand(new_seed)
rand(seed) == Rand!rand(seed)
rand_result(seed) == Rand!rand_result(seed)

\* stdio/doprnt.c and stdio/doscan.c
digs == Io!digs
printnum(u, base) == Io!printnum(u, base)
printnum_16(u) == Io!printnum_16(u)
FlagChars == Io!FlagChars
Field(fmt, p, args, default) == Io!Field(fmt, p, args, default)
AsDirective(fmt, flags, w, prec, conv) == Io!AsDirective(fmt, flags, w, prec, conv)
Conversion(fmt, flags, w, prec) == Io!Conversion(fmt, flags, w, prec)
Precision(fmt, flags, w) == Io!Precision(fmt, flags, w)
Width(fmt, flags, p, args) == Io!Width(fmt, flags, p, args)
Flags(fmt, at, j, args) == Io!Flags(fmt, at, j, args)
Directive(fmt, at, args) == Io!Directive(fmt, at, args)
print_num(d, u, base, sign) == Io!print_num(d, u, base, sign)
print_signed(d, n, base) == Io!print_signed(d, n, base)
print_unsigned(d, n, base) == Io!print_unsigned(d, n, base)
print_s(d, s) == Io!print_s(d, s)
print_b(u, reg) == Io!print_b(u, reg)
Bracketed(d, text) == Io!Bracketed(d, text)
print_t_long(d, id) == Io!print_t_long(d, id)
print_t(d, id) == Io!print_t(d, id)
SignedConv == Io!SignedConv
UnsignedConv == Io!UnsignedConv
Base(conv, radix) == Io!Base(conv, radix)
Takes(conv) == Io!Takes(conv)
Convert(d, args, radix) == Io!Convert(d, args, radix)
_doprnt(fmt, args, radix) == Io!_doprnt(fmt, args, radix)
ScanNumber(s, p, base) == Io!ScanNumber(s, p, base)
ScanWord(s, p) == Io!ScanWord(s, p)
Scan(c, s, p) == Io!Scan(c, s, p)
_doscan(fmt, s) == Io!_doscan(fmt, s)

\* stdio/: printf, sprintf, hexdump
flush == Io!flush
puts(s) == Io!puts(s)
putchar(c) == Io!putchar(c)
printf_char == Io!printf_char
vprintf_end == Io!vprintf_end
printf(p) == Io!printf(p)
Saved(text, max) == Io!Saved(text, max)
vsnprintf(size, fmt, args) == Io!vsnprintf(size, fmt, args)
vsprintf(fmt, args) == Io!vsprintf(fmt, args)
sprintf(x) == Io!sprintf(x)
HexByte(b, n) == Io!HexByte(b, n)
TextByte(b, n) == Io!TextByte(b, n)
HexRow(b, off) == Io!HexRow(b, off)
Border(left, right) == Io!Border(left, right)
hexdump(b) == Io!hexdump(b)
==============================================================================
