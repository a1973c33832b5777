------------------------------- MODULE LogPrint -------------------------------
(***************************************************************************)
(* tools/log/LogPrint: a printf of its own over a LogBuffer.  A call of     *)
(* vprintf is one action: a LogPrint belongs to one thread.                 *)
(*                                                                         *)
(* A format is a sequence of directives, each with the argument va_arg gets *)
(* for it: a character of the text has conv = "text", and the directive     *)
(* %0wu.nf has zero = TRUE, width = w, flags = <<"u">>, frac = n, conv =    *)
(* "f".  An int is 8, a long long 16 bits wide; a double is a number of     *)
(* eighths, so that its fraction is exact; a pointer is a number.           *)
(***************************************************************************)
EXTENDS LogBuffer, SequencesExt

CONSTANTS Char,            \* the characters of text
          Formats,
          MaxCalls         \* bound: calls on one LogPrint

VARIABLES m_buffer,
          asked            \* history: the formats of the calls so far

vars == <<m_buffer, asked>>

IntBits == 8
LongBits == 16
UInt8(n) == n % 256

\* Any of the flags clears sign.
IsSigned(d) == d.flags = <<>>

\* An int or an unsigned int, whatever the directive takes it for.
Passed(d, bits) == -2^(bits - 1) .. (IF IsSigned(d) THEN 2^(bits - 1) ELSE 2^bits) - 1

Pointers == 0 .. 2^LongBits - 1
Doubles == -(8 * 2^LongBits - 1) .. 8 * 2^LongBits - 1

hexArray == <<"0", "1", "2", "3", "4", "5", "6", "7", "8", "9", "a", "b", "c", "d", "e", "f">>
HEXArray == [hexArray EXCEPT ![11] = "A", ![12] = "B", ![13] = "C",
                             ![14] = "D", ![15] = "E", ![16] = "F"]

\* The characters that vprintf writes of its own accord.
Own == {"0", "1", "2", "3", "4", "5", "6", "7", "8", "9", "a", "b", "c", "d", "e", "f",
        "A", "B", "C", "D", "E", "F", "x", "X", "-", ".", " ", "l", "r", "s", "t", "u"}

MaxFrac == 9             \* bound: digits of a fraction

\* What a caller may pass: va_arg reads the argument as the directive's type, and
\* a double's whole part fits a uint64_t.
WellFormed(d) ==
    /\ d.flags \in Seq({"u", "x", "X"})
    /\ CASE d.conv = "text" -> d.flags = <<>> /\ d.arg \in Char
         [] d.conv = "c" -> d.arg \in Char
         [] d.conv = "s" -> d.arg \in Seq(Char)
         [] d.conv = "d" -> d.arg \in Passed(d, IntBits)
         [] d.conv = "l" -> d.arg \in Passed(d, LongBits)
         [] d.conv = "p" -> d.arg \in Pointers
         [] d.conv = "f" -> d.arg \in Doubles /\ d.frac \in 0 .. MaxFrac
         [] OTHER -> d.conv \in Char
    /\ d.conv \in {"d", "l", "f"} => d.width \in Nat

ASSUME FormatsAssumption ==
    /\ Own \subseteq Char
    /\ \A fmt \in Formats : fmt \in Seq(Range(fmt)) /\ \A d \in Range(fmt) : WellFormed(d)
-----------------------------------------------------------------------------
(* printf_num *)

Base(hex) == IF hex = "No" THEN 10 ELSE 16
DigitsOf(hex) == IF hex = "Upper" THEN HEXArray ELSE hexArray

\* The digits of u from the last to the first, as the do-while loops write them.
NumString(u, hex) ==
    LET digits[v \in 0 .. u] ==
            LET last == DigitsOf(hex)[(v % Base(hex)) + 1]
            IN  IF v < Base(hex) THEN <<last>>
                ELSE Append(digits[v \div Base(hex)], last)
    IN  digits[u]

printf_num(b, u, hex, padding, width) ==
    LET num == NumString(u, hex)
        padded == FoldLeft(append_char, b, [i \in 1 .. width - Len(num) |-> padding])
    IN  append(padded, num)
-----------------------------------------------------------------------------
(* vprintf: what one directive does to the buffer *)

Signed(n, bits) == LET u == n % 2^bits IN IF u >= 2^(bits - 1) THEN u - 2^bits ELSE u
Unsigned(n, bits) == n % 2^bits

\* The last of x and X decides hex.
Hex(d) == LET xs == SelectSeq(d.flags, LAMBDA f : f # "u")
          IN  IF xs = <<>> THEN "No" ELSE IF Last(xs) = "x" THEN "Lower" ELSE "Upper"
Padding(d) == IF d.zero THEN "0" ELSE " "
Width(d) == UInt8(d.width)

\* 0x and 0X are written when the flag is read.
AppendPrefixes(b, d) ==
    FoldLeft(LAMBDA c, f : IF f = "u" THEN c ELSE append(c, <<"0", f>>), b, d.flags)

AppendSign(b, negative) == IF negative THEN append_char(b, "-") ELSE b

\* %d and %l: -int64 wraps for the least number, and the cast makes it right.
Negated(n) == Unsigned(-n, LongBits)
Magnitude(n) == IF n < 0 THEN Negated(n) ELSE n

AppendInteger(b, d, bits) ==
    LET n == IF IsSigned(d) THEN Signed(d.arg, bits) ELSE Unsigned(d.arg, bits)
    IN  printf_num(AppendSign(b, n < 0), Magnitude(n), Hex(d), Padding(d), Width(d))

AppendPointer(b, d) == printf_num(b, d.arg, "Upper", "0", LongBits \div 4)

\* %f: whole and fraction apart, the fraction rounded half up; a fraction
\* that rounds to one is carried into the whole.
RoundedFrac(d, rest) == (2 * rest * 10^UInt8(d.frac) + 8) \div 16
NeverCarries(d, frac) == FALSE
AllNines(d, frac) == frac = 10^UInt8(d.frac)
Carries(d, frac) == AllNines(d, frac)

AppendFloat(b, d) ==
    LET fn == IF d.arg < 0 THEN -d.arg ELSE d.arg
        frac == RoundedFrac(d, fn % 8)
        carry == Carries(d, frac)
        whole == printf_num(AppendSign(b, d.arg < 0),
                            fn \div 8 + (IF carry THEN 1 ELSE 0),
                            Hex(d), Padding(d), Width(d))
    IN  printf_num(append_char(whole, "."), IF carry THEN 0 ELSE frac,
                   "No", "0", UInt8(d.frac))

AppendBool(b, d) ==
    append(b, IF d.arg = 0 THEN <<"f", "a", "l", "s", "e">> ELSE <<"t", "r", "u", "e">>)

Convert(b, d) == CASE d.conv = "b" -> AppendBool(b, d)
                   [] d.conv = "c" -> append_char(b, d.arg)
                   [] d.conv = "d" -> AppendInteger(b, d, IntBits)
                   [] d.conv = "f" -> AppendFloat(b, d)
                   [] d.conv = "l" -> AppendInteger(b, d, LongBits)
                   [] d.conv = "p" -> AppendPointer(b, d)
                   [] d.conv = "s" -> append(b, d.arg)
                   [] OTHER -> append_char(b, d.conv)     \* %% and unknown ones

\* The loop goes on while there is room.
Directive(b, d) == IF ~available(b) THEN b
                   ELSE IF d.conv = "text" THEN append_char(b, d.arg)
                   ELSE Convert(AppendPrefixes(b, d), d)

vprintf(fmt) == /\ m_buffer' = FoldLeft(Directive, m_buffer, fmt)
                /\ asked' = Append(asked, fmt)
-----------------------------------------------------------------------------
Init == m_buffer = <<>> /\ asked = <<>>

Next == /\ Len(asked) < MaxCalls
        /\ \E fmt \in Formats : vprintf(fmt)

Spec == Init /\ [][Next]_vars
-----------------------------------------------------------------------------
(* Reference: the text a directive stands for, by positional notation *)

Repeat(n, ch) == [i \in 1 .. n |-> ch]

Numeral(v, base, digitsOf) ==
    LET k == CHOOSE k \in 1 .. 20 : v < base^k /\ \A j \in 1 .. k - 1 : base^j <= v
    IN  [i \in 1 .. k |-> digitsOf[((v \div base^(k - i)) % base) + 1]]

Field(num, width, padding) == Repeat(width - Len(num), padding) \o num
Sign(d) == IF IsSigned(d) /\ d.arg < 0 THEN <<"-">> ELSE <<>>

IntegerText(d, bits) ==
    LET v == IF d.arg >= 0 THEN d.arg ELSE IF IsSigned(d) THEN -d.arg ELSE d.arg + 2^bits
    IN  Sign(d) \o Field(Numeral(v, Base(Hex(d)), DigitsOf(Hex(d))), Width(d), Padding(d))

\* A double is scaled by a power of ten and rounded as a whole.
FloatText(d) ==
    LET fn == IF d.arg < 0 THEN -d.arg ELSE d.arg
        one == 10^d.frac
        scaled == (2 * fn * one + 8) \div 16
    IN  (IF d.arg < 0 THEN <<"-">> ELSE <<>>)
        \o Field(Numeral(scaled \div one, Base(Hex(d)), DigitsOf(Hex(d))), Width(d), Padding(d))
        \o <<".">> \o Field(Numeral(scaled % one, 10, hexArray), d.frac, "0")

PrefixText(d) == FlattenSeq([i \in DOMAIN d.flags |->
                               IF d.flags[i] = "u" THEN <<>> ELSE <<"0", d.flags[i]>>])

Text(d) == CASE d.conv = "text" -> <<d.arg>>
             [] d.conv = "b" -> IF d.arg = 0 THEN <<"f", "a", "l", "s", "e">>
                                ELSE <<"t", "r", "u", "e">>
             [] d.conv = "c" -> <<d.arg>>
             [] d.conv = "d" -> IntegerText(d, IntBits)
             [] d.conv = "f" -> FloatText(d)
             [] d.conv = "l" -> IntegerText(d, LongBits)
             [] d.conv = "p" -> Field(Numeral(d.arg, 16, HEXArray), LongBits \div 4, "0")
             [] d.conv = "s" -> d.arg
             [] OTHER -> <<d.conv>>

Rendered == LET ds == FlattenSeq(asked)
            IN  FlattenSeq([i \in DOMAIN ds |-> PrefixText(ds[i]) \o Text(ds[i])])
-----------------------------------------------------------------------------
(* Safety *)

\* However the pieces of the calls fall on the end of the array, the buffer
\* holds the text asked for, cut off at its end: no piece that comes after the
\* cut gets in, the last byte stays, and numbers read back at the edges of their types.
TextAsAsked == m_buffer = SubSeq(Rendered, 1, IF Len(Rendered) < End THEN Len(Rendered) ELSE End)
=============================================================================
