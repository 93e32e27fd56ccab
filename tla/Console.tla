------------------------------ MODULE Console ------------------------------
(***************************************************************************)
(* The console of syscall/io.c (lab4 part2): the line editor of read, one  *)
(* character at a time, and the text write puts out; the terminal that     *)
(* shows what both send.  Characters are their codes.                      *)
(***************************************************************************)
EXTENDS Integers, Sequences, FiniteSets, SequencesExt

EOT_CHAR == 4
DEL_CHAR == 127
Erases(c)   == c \in {8, DEL_CHAR}
EndsLine(c) == c \in {10, 13}
Regular(c)  == 31 < c /\ c < 127

-----------------------------------------------------------------------------
(* The terminal at the other end of the line.                              *)

\* One row of cells and the cursor, after a character arrives.
Arrives(term, c) ==
    CASE c = 8 -> [term EXCEPT !.col = IF @ > 0 THEN @ - 1 ELSE 0]
      [] EndsLine(c) -> [col |-> 0, row |-> <<>>]
      [] Regular(c)  ->
            [col |-> term.col + 1,
             row |-> IF term.col < Len(term.row)
                       THEN [term.row EXCEPT ![term.col + 1] = c] ELSE Append(term.row, c)]
      [] OTHER -> term

\* The row shows this text, up to the cursor, and nothing after it.
Shows(term, text) ==
    /\ term.col = Len(text)
    /\ SubSeq(term.row, 1, term.col) = text
    /\ \A i \in (term.col + 1)..Len(term.row) : term.row[i] = 32

-----------------------------------------------------------------------------
(* The line editor.                                                        *)

\* A line being read: the caller's buffer, how much of it is filled, what the
\* terminal shows of the echo, and whether a key has ended it.
NewLine(buf) ==
    [buf |-> buf, length |-> 0, screen |-> [col |-> 0, row |-> <<>>], ended |-> FALSE]

\* The escapes spelt out, puts("\\b \\b"), as in lab2/part2/kernel/read.c:43; here a
\* mutated form of ERASE.
ERASE_spelt(screen) == FoldLeft(Arrives, screen, <<92, 98, 32, 92, 98>>)

\* puts("\b \b")
ERASE(screen) == Arrives(Arrives(Arrives(screen, 8), 32), 8)

Stored(line, c) ==
    [line EXCEPT !.buf[line.length] = c, !.screen = Arrives(@, c), !.length = @ + 1]

\* Mutated form of Erased: at the start of the line too.
Erased_always(line) ==
    [line EXCEPT !.screen = ERASE(@), !.length = @ - 1]

Erased(line) ==
    IF line.length = 0 THEN line
    ELSE [line EXCEPT !.buf[line.length - 1] = 0, !.screen = ERASE(@), !.length = @ - 1]

\* The line after one more key: anything else is neither stored nor echoed.
Keyed(line, c) ==
    CASE c = EOT_CHAR -> [line EXCEPT !.ended = TRUE]
      [] Erases(c)    -> Erased(line)
      [] EndsLine(c)  -> [Stored(line, c) EXCEPT !.ended = TRUE]
      [] Regular(c)   -> Stored(line, c)
      [] OTHER        -> line

MoreToRead(line, count) == line.length < count /\ ~line.ended

\* What write puts out of the count bytes of a text: up to the first NUL.
Written(text, count) ==
    LET nul == {i \in 1..count : text[i] = 0}
    IN  SubSeq(text, 1, IF nul = {} THEN count
                        ELSE (CHOOSE i \in nul : \A j \in nul : i <= j) - 1)

-----------------------------------------------------------------------------
(* What was typed.                                                         *)

Types(c) == Regular(c) \/ EndsLine(c)

\* Of the keys from i + 1 to j, those that type a character and those that erase one.
Typings(keys, i, j)  == Cardinality({k \in (i + 1)..j : Types(keys[k])})
Erasures(keys, i, j) == Cardinality({k \in (i + 1)..j : Erases(keys[k])})

\* A character stays unless more keys after it erase than type.
Staying(keys) ==
    {i \in 1..Len(keys) :
        /\ Types(keys[i])
        /\ \A j \in (i + 1)..Len(keys) : Erasures(keys, i, j) <= Typings(keys, i, j)}

\* What the keys typed so far leave, in the order in which it was typed.
Kept(keys) ==
    LET on     == Staying(keys)
        nth(k) == CHOOSE i \in on : Cardinality({j \in on : j <= i}) = k
    IN  [k \in 1..Cardinality(on) |-> keys[nth(k)]]

=============================================================================
