-------------------------------- MODULE MCLibc --------------------------------
(***************************************************************************)
(* The two parts of the C library side by side: a behaviour calls either   *)
(* the string functions, on every memory, or stdio.                        *)
(***************************************************************************)
EXTENDS LibString, LibStdio, LibRand

VARIABLE part

LibcInit ==
    \/ part = "string" /\ Init /\ StdioInit
    \/ /\ part = "stdio" /\ StdioInit
       /\ mem = [a \in Addr |-> 0] /\ before = mem
       /\ moving = FALSE /\ dest = 1 /\ src = 1 /\ count = 0 /\ i = 0
LibcNext ==
    \/ part = "string" /\ Next /\ UNCHANGED <<part, stdio_vars>>
    \/ part = "stdio" /\ StdioNext /\ UNCHANGED <<part, vars>>
LibcSpec == LibcInit /\ [][LibcNext]_<<part, vars, stdio_vars>>

-----------------------------------------------------------------------------
\* NUL and two letters.
MCChar == {0, 1, 2}

NL == <<10>>

\* Texts shorter than, as long as and longer than the buffer of 8, with newlines
\* and a NUL at every place, and each kind of argument.
MCPrints ==
    {[fmt |-> f, args |-> <<>>] :
        f \in {Codes("a"), Codes("ab") \o NL, NL, Codes("abcdefg"), Codes("abcdefg") \o NL,
               Codes("abcdefgh") \o NL \o Codes("z"), Codes("100%%") \o NL \o NL,
               Codes("abcdefghijklmnopq"), Codes("%q%")}}
    \cup {[fmt |-> Codes(f), args |-> <<c>>] : f \in {"%c", "ab%c", "a%cb", "abcdefg%c"}, c \in {0, 10, 65}}
    \cup {[fmt |-> Codes("%s=%d") \o NL, args |-> <<Codes("abcdef"), n>>] : n \in {-5, 7}}
    \cup {[fmt |-> Codes("%b"), args |-> <<u, [base |-> 8, fields |->
             <<[bit |-> 2, low |-> 0, name |-> Codes("BITTWO")],
               [bit |-> 1, low |-> 0, name |-> Codes("BITONE")],
               [bit |-> 4, low |-> 3, name |-> Codes("F=")]>>]>>] : u \in {0, 3, 11}}
    \cup {[fmt |-> Codes(f), args |-> <<[task |-> t, lthread |-> 18, high |-> 171, low |-> 5]>>] :
             f \in {"%t", "%#8t", "%-8t", "%#08t", "%lt", "%#-22lt"}, t \in {3, 300}}
    \cup {[fmt |-> Codes("%p"), args |-> <<127>>]}

Directive1(flags, zeros, widths, precs, convs, args) ==
    [flags : {Codes(f) : f \in flags}, zero : zeros, width : widths, star : {FALSE},
     prec : precs, conv : {Ch[c] : c \in convs}, arg : args]
MCDirectives ==
    Directive1({"", "-", "#", "+", " ", "-#+"}, BOOLEAN, {0, 1, 5}, {-1},
               {"d", "u", "x", "o", "z"}, {-128, -1, 0, 9, 10, 127})
    \cup [flags : {Codes(""), Codes("-")}, zero : BOOLEAN, width : {-5, 5}, star : {TRUE},
          prec : {-1, 1}, conv : {Ch["d"]}, arg : {-10, 10}]
    \cup Directive1({"", "-"}, BOOLEAN, {0, 2, 5}, {-1, 0, 2}, {"s"},
                    {Codes(""), Codes("a"), Codes("abc")})

MCDumps == {<<>>, [k \in 1..3 |-> 60 + k], [k \in 1..16 |-> 10 * k], [k \in 1..18 |-> 14 * k]}
=============================================================================
