----------------------------- MODULE MCLogPrint -----------------------------
(* LogPrint with a buffer that a few directives fill. *)
EXTENDS LogPrint

Strings == STRING

Text1(ch) == [conv |-> "text", flags |-> <<>>, arg |-> ch]
Spec1(conv, arg) == [zero |-> FALSE, width |-> 0, flags |-> <<>>, frac |-> 6,
                     conv |-> conv, arg |-> arg]
Flags1(fs, conv, arg) == [Spec1(conv, arg) EXCEPT !.flags = fs]
Wide1(zero, width, conv, arg) == [Spec1(conv, arg) EXCEPT !.zero = zero, !.width = width]
Frac1(n, arg) == [Spec1("f", arg) EXCEPT !.frac = n]

\* Both ends of the types, and values around zero and a power of the base.
Integers1 == {Spec1("d", n) : n \in {-128, -1, 0, 9, 10, 127}}
    \union {Spec1("l", n) : n \in {-32768, -32767, 32767}}
    \union {Flags1(<<"u">>, "d", n) : n \in {-1, 255}}
    \union {Flags1(<<"u">>, "l", n) : n \in {-32768, 65535}}
    \union {Flags1(fs, "d", n) : fs \in {<<"x">>, <<"X">>, <<"X", "x">>}, n \in {-1, 15, 16}}
    \union {Wide1(z, w, "d", n) : z \in BOOLEAN, w \in {3, 14, 258}, n \in {-5, 100}}

\* In eighths: -0.875, 0.5 and 9.875; 11 and 9.875 again with a flag and a width.
Floats1 == {Frac1(n, v) : n \in {0, 2, 3, 6}, v \in {-7, 4, 79}}
    \union {Wide1(TRUE, 4, "f", 79), Flags1(<<"X">>, "f", 88)}

Others1 == {Text1("t"), Spec1("b", 0), Spec1("b", 1), Spec1("c", "k"), Spec1("%", 0),
            Spec1("q", 0), Spec1("p", 48879), Spec1("s", <<>>), Spec1("s", <<"a", "b", "c">>),
            Flags1(<<"x">>, "s", <<"z">>)}

\* One directive, or a double between characters of the text and a bool.
SmallFormats == {<<d>> : d \in Integers1 \union Floats1 \union Others1}
    \union {<<Text1("t"), d, Spec1("b", 1), Text1("n")>> : d \in Floats1}
=============================================================================
