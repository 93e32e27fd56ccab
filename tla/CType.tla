------------------------------- MODULE CType -------------------------------
(***************************************************************************)
(* include/ctype.h of the tasks' C library: the predicates on character    *)
(* codes.  char is unsigned on this machine, so a code is 0 .. 255.        *)
(***************************************************************************)
EXTENDS Integers, Sequences, TLC

NUL == 0

\* The codes of the printable characters, so that the other modules can write
\* a character as itself: Ch["a"] is 97, Codes("ab") is <<97, 98>>.
Row32 == " !\"#$%&'()*+,-./0123456789:;<=>?@ABCDEFGHIJKLMNOPQRSTUVWXYZ[\\]^_"
Row97 == "abcdefghijklmnopqrstuvwxyz{|}~"
RowCodes(row, first) ==
    LET nth(n) == SubSeq(row, n, n)
    IN  [c \in {nth(n) : n \in 1..Len(row)} |->
            first - 1 + CHOOSE n \in 1..Len(row) : nth(n) = c]
Ch == RowCodes(Row32, 32) @@ RowCodes(Row97, 97)
Codes(s) == [n \in 1..Len(s) |-> Ch[SubSeq(s, n, n)]]

isascii(c) == c \in 0..127
iscntrl(c) == c < Ch[" "] \/ c > 126
isdigit(c) == c \in Ch["0"]..Ch["9"]
isgraph(c) == c > Ch[" "] /\ c <= 126
islower(c) == c \in Ch["a"]..Ch["z"]
isprint(c) == c >= Ch[" "] /\ c <= 126
isspace(c) == c \in {Ch[" "], 9, 10, 11, 12, 13}     \* \t \n \v \f \r
isupper(c) == c \in Ch["A"]..Ch["Z"]
isxdigit(c) == isdigit(c) \/ c \in Ch["A"]..Ch["F"] \/ c \in Ch["a"]..Ch["f"]
isalpha(c) == islower(c) \/ isupper(c)
isalnum(c) == isalpha(c) \/ isdigit(c)
ispunct(c) == isgraph(c) /\ ~isalnum(c)
toupper(c) == IF islower(c) THEN c - Ch["a"] + Ch["A"] ELSE c
tolower(c) == IF isupper(c) THEN c - Ch["A"] + Ch["a"] ELSE c
=============================================================================
