--------------------------- MODULE LogPrintProofs ---------------------------
(***************************************************************************)
(* A LogPrint holds the text asked for, cut off at the end of its array,    *)
(* for any capacity and any well formed formats.                            *)
(*                                                                         *)
(* The argument is one sentence: appending to a text that is cut off, and   *)
(* cutting, is cutting the longer text.  CutAppends says so of append, and  *)
(* each conversion is a sequence of appends: the proof climbs from          *)
(* printf_num to the directive, to the format, to the calls.  On the way,   *)
(* the digits that the loops write are those of positional notation, and a  *)
(* double printed in two halves is the double rounded as a whole.           *)
(* What holds of sequences and numbers of any length is proved from the     *)
(* least counterexample.                                                    *)
(***************************************************************************)
EXTENDS LogPrint, SequenceTheorems, WellFoundedInduction, TLAPS
-----------------------------------------------------------------------------
(* Induction *)

\* The numbers have no endless descent.
LEMMA LessIsWellFounded == IsWellFoundedOn({ss \in Nat \X Nat : ss[1] < ss[2]}, Nat)
  BY NatLessThanWellFounded DEF OpToRel

\* So a set of numbers that is not empty has a least one.
LEMMA LeastExists ==
  ASSUME NEW S \in SUBSET Nat, S # {}
  PROVE  \E k \in S : \A j \in S : k <= j
  <1> DEFINE R == {ss \in Nat \X Nat : ss[1] < ss[2]}
  <1>1. PICK k \in S : \A j \in S : <<j, k>> \notin R
    <2>1. IsWellFoundedOn(R, Nat)
      BY LessIsWellFounded
    <2> HIDE DEF R
    <2> QED BY <2>1, WFMin
  <1>2. ASSUME NEW j \in S PROVE k <= j
    <2>1. <<j, k>> \notin R
      BY <1>1
    <2> QED BY <2>1
  <1> QED BY <1>2

-----------------------------------------------------------------------------
(* LogBuffer *)

\* What a buffer holds of the text t.
Cut(t) == SubSeq(t, 1, IF Len(t) < End THEN Len(t) ELSE End)

\* The array keeps one byte free of text.
LEMMA EndType == End \in Nat
  BY CapacityAssumption DEF End

\* A cut text is a text of at most End characters, the first ones.
LEMMA CutIs ==
  ASSUME NEW S, NEW t \in Seq(S)
  PROVE  /\ Cut(t) \in Seq(S)
         /\ Len(Cut(t)) = IF Len(t) < End THEN Len(t) ELSE End
         /\ \A i \in 1 .. Len(Cut(t)) : i \in 1 .. Len(t) /\ Cut(t)[i] = t[i]
  <1> DEFINE n == IF Len(t) < End THEN Len(t) ELSE End
  <1>1. Len(t) \in Nat /\ End \in Nat
    BY EndType
  <1>2. n \in 0 .. Len(t)
    BY <1>1
  <1> HIDE DEF n
  <1>3. \A i \in 1 .. n : t[i] \in S
    BY <1>1, <1>2
  <1>4. /\ SubSeq(t, 1, n) \in Seq(S) /\ Len(SubSeq(t, 1, n)) = n
        /\ \A i \in 1 .. n : SubSeq(t, 1, n)[i] = t[i]
    BY <1>1, <1>2, <1>3
  <1>5. \A i \in 1 .. n : i \in 1 .. Len(t)
    BY <1>1, <1>2
  <1> QED BY <1>4, <1>5 DEF Cut, n

\* LogBuffer::append to a cut text is the cut of the longer text.
LEMMA CutAppends ==
  ASSUME NEW S, NEW t \in Seq(S), NEW s \in Seq(S)
  PROVE  append(Cut(t), s) = Cut(t \o s)
  <1> DEFINE c == Cut(t)
             new == IF Len(c) + Len(s) < End THEN s ELSE SubSeq(s, 1, End - Len(c))
  <1>1. Len(t) \in Nat /\ Len(s) \in Nat /\ End \in Nat
    BY EndType
  <1>2. /\ c \in Seq(S) /\ Len(c) = IF Len(t) < End THEN Len(t) ELSE End
        /\ \A i \in 1 .. Len(c) : c[i] = t[i]
    BY CutIs
  <1>3. Len(c) \in Nat /\ Len(c) <= End
    BY <1>1, <1>2
  <1> DEFINE m == IF Len(c) + Len(s) < End THEN Len(s) ELSE End - Len(c)
  <1>4. m \in 0 .. Len(s)
    BY <1>1, <1>3
  <1>5. new \in Seq(S) /\ Len(new) = m /\ \A i \in 1 .. m : new[i] = s[i]
    <2>1. CASE Len(c) + Len(s) < End
      BY <2>1
    <2>2. CASE ~(Len(c) + Len(s) < End)
      <3>1. m = End - Len(c) /\ new = SubSeq(s, 1, m)
        BY <2>2
      <3> HIDE DEF m, new
      <3>2. \A i \in 1 .. m : s[i] \in S
        BY <1>1, <1>4
      <3>3. /\ SubSeq(s, 1, m) \in Seq(S) /\ Len(SubSeq(s, 1, m)) = m
            /\ \A i \in 1 .. m : SubSeq(s, 1, m)[i] = s[i]
        BY <1>1, <1>4, <3>2
      <3> QED BY <3>1, <3>3
    <2> QED BY <2>1, <2>2
  <1>6. append(c, s) = c \o new
    BY DEF append
  <1>7. /\ t \o s \in Seq(S) /\ Len(t \o s) = Len(t) + Len(s)
        /\ \A i \in 1 .. Len(t) + Len(s) :
              (t \o s)[i] = IF i <= Len(t) THEN t[i] ELSE s[i - Len(t)]
    BY ConcatProperties
  <1>8. /\ Cut(t \o s) \in Seq(S)
        /\ Len(Cut(t \o s)) = IF Len(t) + Len(s) < End THEN Len(t) + Len(s) ELSE End
        /\ \A i \in 1 .. Len(Cut(t \o s)) : Cut(t \o s)[i] = (t \o s)[i]
    BY <1>7, CutIs
  <1>9. Len(Cut(t \o s)) = Len(c) + m
    <2>1. PICK a, b, e, l \in Nat : a = Len(t) /\ b = Len(s) /\ e = End /\ l = Len(c)
      BY <1>1, <1>3
    <2>2. Len(c) = (IF Len(t) < End THEN Len(t) ELSE End)
      BY <1>2
    <2>3. Len(Cut(t \o s)) = (IF Len(t) + Len(s) < End THEN Len(t) + Len(s) ELSE End)
      BY <1>8
    <2> HIDE DEF c
    <2>4. Len(c) + m = Len(c) + (IF Len(c) + Len(s) < End THEN Len(s) ELSE End - Len(c))
      OBVIOUS
    <2> HIDE DEF m
    <2>5. (IF Len(t) + Len(s) < End THEN Len(t) + Len(s) ELSE End)
             = Len(c) + (IF Len(c) + Len(s) < End THEN Len(s) ELSE End - Len(c))
      <3>1. l = (IF a < e THEN a ELSE e)
        BY <2>1, <2>2
      <3>2. (IF a + b < e THEN a + b ELSE e) = l + (IF l + b < e THEN b ELSE e - l)
        BY <3>1
      <3> QED BY <2>1, <3>2
    <2> QED BY <2>3, <2>4, <2>5
  <1>10. Len(c) + m <= Len(t) + Len(s) /\ (m # 0 => Len(c) = Len(t))
    <2>1. CASE Len(t) < End
      <3>1. Len(c) = Len(t)
        BY <1>2, <2>1
      <3>2. m \in Nat /\ m <= Len(s)
        BY <1>1, <1>4
      <3> HIDE DEF c, m
      <3> QED BY <1>1, <3>1, <3>2
    <2>2. CASE ~(Len(t) < End)
      <3>1. Len(c) = End
        BY <1>2, <2>2
      <3>2. ~(Len(c) + Len(s) < End)
        BY <1>1, <3>1
      <3>3. m = 0
        BY <1>1, <3>1, <3>2
      <3> HIDE DEF c, m
      <3> QED BY <1>1, <2>2, <3>1, <3>3
    <2> QED BY <2>1, <2>2
  <1> HIDE DEF m, new, c
  <1>11. /\ c \o new \in Seq(S) /\ Len(c \o new) = Len(c) + m
         /\ \A i \in 1 .. Len(c) + m :
               (c \o new)[i] = IF i <= Len(c) THEN c[i] ELSE new[i - Len(c)]
    BY <1>2, <1>5, ConcatProperties
  <1>12. ASSUME NEW i \in 1 .. Len(c) + m
         PROVE  (c \o new)[i] = Cut(t \o s)[i]
    <2>1. i \in 1 .. Len(t) + Len(s) /\ Cut(t \o s)[i] = (t \o s)[i]
      BY <1>1, <1>3, <1>4, <1>8, <1>9, <1>10
    <2>2. CASE i <= Len(c)
      <3>1. i \in 1 .. Len(c) /\ i <= Len(t)
        BY <1>1, <1>2, <1>3, <2>2
      <3>2. (c \o new)[i] = t[i]
        BY <1>2, <1>11, <3>1, <2>2
      <3> QED BY <1>7, <2>1, <3>1, <3>2
    <2>3. CASE ~(i <= Len(c))
      <3>1. m # 0 /\ i - Len(c) \in 1 .. m
        BY <1>3, <1>4, <2>3
      <3>2. Len(c) = Len(t) /\ ~(i <= Len(t))
        BY <1>10, <2>3, <3>1
      <3>3. (c \o new)[i] = s[i - Len(c)]
        BY <1>5, <1>11, <2>3, <3>1
      <3> QED BY <1>7, <2>1, <3>2, <3>3
    <2> QED BY <2>2, <2>3
  <1>13. c \o new = Cut(t \o s)
    <2>1. c \o new \in Seq(S) /\ Cut(t \o s) \in Seq(S) /\ Len(c \o new) = Len(Cut(t \o s))
      BY <1>8, <1>9, <1>11
    <2>2. \A i \in 1 .. Len(c \o new) : (c \o new)[i] = Cut(t \o s)[i]
      BY <1>11, <1>12
    <2> QED BY <2>1, <2>2, SeqEqual
  <1> QED BY <1>6, <1>13 DEF c

\* The same of one character.
LEMMA CutAppendsChar ==
  ASSUME NEW S, NEW t \in Seq(S), NEW ch \in S
  PROVE  append_char(Cut(t), ch) = Cut(t \o <<ch>>)
  <1> DEFINE c == Cut(t)
  <1>1. <<ch>> \in Seq(S) /\ Len(<<ch>>) = 1
    OBVIOUS
  <1>2. /\ c \in Seq(S) /\ Len(c) = (IF Len(t) < End THEN Len(t) ELSE End)
    BY CutIs
  <1>3. append(c, <<ch>>) = Cut(t \o <<ch>>)
    BY <1>1, CutAppends
  <1>4. Len(t) \in Nat /\ End \in Nat
    BY EndType
  <1>5. Len(c) \in Nat /\ Len(c) <= End
    BY <1>2, <1>4
  <1> HIDE DEF c
  <1>6. CASE End > Len(c)
    <2>1. append_char(c, ch) = Append(c, ch)
      BY <1>6 DEF append_char, available
    <2>2. Append(c, ch) = c \o <<ch>>
      BY <1>2
    <2>3. append(c, <<ch>>) = c \o <<ch>>
      <3>1. CASE Len(c) + 1 < End
        BY <1>1, <3>1 DEF append
      <3>2. CASE ~(Len(c) + 1 < End)
        <4>1. End - Len(c) = 1
          BY <1>4, <1>5, <1>6, <3>2
        <4>2. SubSeq(<<ch>>, 1, 1) = <<ch>>
          BY <1>1, SubSeqFull
        <4> QED BY <1>1, <3>2, <4>1, <4>2 DEF append
      <3> QED BY <3>1, <3>2
    <2> QED BY <1>3, <2>1, <2>2, <2>3 DEF c
  <1>7. CASE ~(End > Len(c))
    <2>1. append_char(c, ch) = c
      BY <1>7 DEF append_char, available
    <2>2. End - Len(c) = 0 /\ ~(Len(c) + 1 < End)
      BY <1>4, <1>5, <1>7
    <2>3. SubSeq(<<ch>>, 1, 0) = <<>>
      BY SubSeqEmpty
    <2>4. append(c, <<ch>>) = c \o <<>>
      BY <1>1, <2>2, <2>3 DEF append
    <2>5. c \o <<>> = c
      BY <1>2, ConcatEmptySeq
    <2> QED BY <1>3, <2>1, <2>4, <2>5 DEF c
  <1> QED BY <1>6, <1>7

\* A full buffer stays as it is.
LEMMA CutFull ==
  ASSUME NEW S, NEW t \in Seq(S), NEW s \in Seq(S), ~available(Cut(t))
  PROVE  Cut(t \o s) = Cut(t)
  <1> DEFINE c == Cut(t)
  <1>1. /\ c \in Seq(S) /\ Len(c) = (IF Len(t) < End THEN Len(t) ELSE End)
        /\ Len(t) \in Nat /\ End \in Nat /\ Len(s) \in Nat
    BY CutIs, EndType
  <1>2. append(c, s) = Cut(t \o s)
    BY CutAppends
  <1> HIDE DEF c
  <1>3. ~(End > Len(c))
    BY DEF available, c
  <1>4. End - Len(c) = 0 /\ ~(Len(c) + Len(s) < End)
    BY <1>1, <1>3
  <1>5. SubSeq(s, 1, 0) = <<>>
    BY SubSeqEmpty
  <1>6. append(c, s) = c \o <<>>
    BY <1>4, <1>5 DEF append
  <1>7. c \o <<>> = c
    BY <1>1, ConcatEmptySeq
  <1> QED BY <1>2, <1>6, <1>7 DEF c

-----------------------------------------------------------------------------
(* printf_num *)

\* A power, as a name that the provers take apart only when told to.
Pow(b, j) == b^j

\* What is used of the powers of the two bases, up to the ninth.
LEMMA PowersOf10 ==
  /\ \A j \in 0 .. 9 : Pow(10, j) \in Nat \ {0} /\ Pow(10, j) <= Pow(10, 9)
  /\ Pow(10, 0) = 1 /\ Pow(10, 1) = 10
  /\ \A j \in 0 .. 8 : Pow(10, j + 1) = 10 * Pow(10, j)
  <1>1. Pow(10, 0) = 1
    BY Z3 DEF Pow
  <1>2. Pow(10, 1) = 10
    BY Z3 DEF Pow
  <1>3. Pow(10, 2) = 100
    BY Z3 DEF Pow
  <1>4. Pow(10, 3) = 1000
    BY Z3 DEF Pow
  <1>5. Pow(10, 4) = 10000
    BY Z3 DEF Pow
  <1>6. Pow(10, 5) = 100000
    BY Z3 DEF Pow
  <1>7. Pow(10, 6) = 1000000
    BY Z3 DEF Pow
  <1>8. Pow(10, 7) = 10000000
    BY Z3 DEF Pow
  <1>9. Pow(10, 8) = 100000000
    BY Z3 DEF Pow
  <1>10. Pow(10, 9) = 1000000000
    BY Z3 DEF Pow
  <1>11. ASSUME NEW j \in 0 .. 9 PROVE Pow(10, j) \in Nat \ {0} /\ Pow(10, j) <= Pow(10, 9)
    <2>1. \/ j = 0 \/ j = 1 \/ j = 2 \/ j = 3 \/ j = 4
          \/ j = 5 \/ j = 6 \/ j = 7 \/ j = 8 \/ j = 9
      OBVIOUS
    <2> QED BY <1>1, <1>2, <1>3, <1>4, <1>5, <1>6, <1>7, <1>8, <1>9, <1>10, <2>1
  <1>12. ASSUME NEW j \in 0 .. 8 PROVE Pow(10, j + 1) = 10 * Pow(10, j)
    <2>1. \/ j = 0 /\ j + 1 = 1
          \/ j = 1 /\ j + 1 = 2
          \/ j = 2 /\ j + 1 = 3
          \/ j = 3 /\ j + 1 = 4
          \/ j = 4 /\ j + 1 = 5
          \/ j = 5 /\ j + 1 = 6
          \/ j = 6 /\ j + 1 = 7
          \/ j = 7 /\ j + 1 = 8
          \/ j = 8 /\ j + 1 = 9
      OBVIOUS
    <2> QED BY <1>1, <1>2, <1>3, <1>4, <1>5, <1>6, <1>7, <1>8, <1>9, <1>10, <2>1
  <1> QED BY <1>1, <1>2, <1>11, <1>12

\* The same of sixteen.
LEMMA PowersOf16 ==
  /\ \A j \in 0 .. 9 : Pow(16, j) \in Nat \ {0}
  /\ Pow(16, 0) = 1 /\ Pow(16, 1) = 16
  /\ \A j \in 0 .. 8 : Pow(16, j + 1) = 16 * Pow(16, j)
  <1>1. Pow(16, 0) = 1
    BY Z3 DEF Pow
  <1>2. Pow(16, 1) = 16
    BY Z3 DEF Pow
  <1>3. Pow(16, 2) = 256
    BY Z3 DEF Pow
  <1>4. Pow(16, 3) = 4096
    BY Z3 DEF Pow
  <1>5. Pow(16, 4) = 65536
    BY Z3 DEF Pow
  <1>6. Pow(16, 5) = 1048576
    BY Z3 DEF Pow
  <1>7. Pow(16, 6) = 16777216
    BY Z3 DEF Pow
  <1>8. Pow(16, 7) = 268435456
    BY Z3 DEF Pow
  <1>9. Pow(16, 8) = 4294967296
    BY Z3 DEF Pow
  <1>10. Pow(16, 9) = 68719476736
    BY Z3 DEF Pow
  <1>11. ASSUME NEW j \in 0 .. 9 PROVE Pow(16, j) \in Nat \ {0}
    <2>1. \/ j = 0 \/ j = 1 \/ j = 2 \/ j = 3 \/ j = 4
          \/ j = 5 \/ j = 6 \/ j = 7 \/ j = 8 \/ j = 9
      OBVIOUS
    <2> QED BY <1>1, <1>2, <1>3, <1>4, <1>5, <1>6, <1>7, <1>8, <1>9, <1>10, <2>1
  <1>12. ASSUME NEW j \in 0 .. 8 PROVE Pow(16, j + 1) = 16 * Pow(16, j)
    <2>1. \/ j = 0 /\ j + 1 = 1
          \/ j = 1 /\ j + 1 = 2
          \/ j = 2 /\ j + 1 = 3
          \/ j = 3 /\ j + 1 = 4
          \/ j = 4 /\ j + 1 = 5
          \/ j = 5 /\ j + 1 = 6
          \/ j = 6 /\ j + 1 = 7
          \/ j = 7 /\ j + 1 = 8
          \/ j = 8 /\ j + 1 = 9
      OBVIOUS
    <2> QED BY <1>1, <1>2, <1>3, <1>4, <1>5, <1>6, <1>7, <1>8, <1>9, <1>10, <2>1
  <1> QED BY <1>1, <1>2, <1>11, <1>12

\* The same of either base.
LEMMA Powers ==
  ASSUME NEW b \in {10, 16}
  PROVE  /\ \A j \in 0 .. 9 : Pow(b, j) \in Nat \ {0}
         /\ Pow(b, 0) = 1 /\ Pow(b, 1) = b /\ \A j \in 0 .. 8 : Pow(b, j + 1) = b * Pow(b, j)
  BY PowersOf10, PowersOf16

\* v has k digits in base b.
Digits(v, b, k) == v < Pow(b, k) /\ \A j \in 1 .. k - 1 : Pow(b, j) <= v

\* The k digits of v by their positions.
Positions(v, b, k, dg) == [i \in 1 .. k |-> dg[((v \div Pow(b, k - i)) % b) + 1]]

\* The number of digits is unique, so that Numeral is the notation by position.
LEMMA NumeralIs ==
  ASSUME NEW b \in {10, 16}, NEW k \in 1 .. 9, NEW v \in Nat, Digits(v, b, k), NEW dg
  PROVE  Numeral(v, b, dg) = Positions(v, b, k, dg)
  <1> DEFINE P(l) == v < Pow(b, l) /\ \A j \in 1 .. l - 1 : Pow(b, j) <= v
             m == CHOOSE l \in 1 .. 20 : P(l)
  <1>1. k \in 1 .. 20 /\ P(k)
    BY DEF Digits
  <1>2. m \in 1 .. 20 /\ P(m)
    BY <1>1
  <1>3. Numeral(v, b, dg) = Positions(v, b, m, dg)
    BY Zenon DEF Numeral, Pow, Positions
  <1> HIDE DEF m
  <1>4. ~(m < k)
    <2> SUFFICES ASSUME m < k PROVE FALSE
      OBVIOUS
    <2>1. m \in 1 .. k - 1 /\ m \in 0 .. 9
      BY <1>2
    <2>2. Pow(b, m) <= v /\ v < Pow(b, m) /\ Pow(b, m) \in Nat
      BY <1>1, <1>2, <2>1, Powers
    <2> QED BY <2>2
  <1>5. ~(k < m)
    <2> SUFFICES ASSUME k < m PROVE FALSE
      OBVIOUS
    <2>1. k \in 1 .. m - 1 /\ k \in 0 .. 9
      BY <1>2
    <2>2. Pow(b, k) <= v /\ v < Pow(b, k) /\ Pow(b, k) \in Nat
      BY <1>1, <1>2, <2>1, Powers
    <2> QED BY <2>2
  <1>6. m = k
    BY <1>2, <1>4, <1>5
  <1> QED BY <1>3, <1>6

\* And a number below the ninth power has one.
LEMMA DigitsExist ==
  ASSUME NEW b \in {10, 16}, NEW v \in Nat, v < Pow(b, 9)
  PROVE  \E k \in 1 .. 9 : Digits(v, b, k)
  <1> DEFINE S == {k \in 1 .. 9 : v < Pow(b, k)}
  <1>1. 9 \in S /\ S \subseteq Nat
    OBVIOUS
  <1> HIDE DEF S
  <1>2. PICK k \in S : \A j \in S : k <= j
    BY <1>1, LeastExists
  <1>3. k \in 1 .. 9 /\ v < Pow(b, k)
    BY <1>2 DEF S
  <1>4. ASSUME NEW j \in 1 .. k - 1 PROVE Pow(b, j) <= v
    <2>1. j \in 1 .. 9 /\ j \in 0 .. 9 /\ ~(k <= j)
      BY <1>3
    <2>2. ~(v < Pow(b, j)) /\ Pow(b, j) \in Nat
      BY <1>2, <2>1, Powers DEF S
    <2> QED BY <2>2
  <1> QED BY <1>3, <1>4 DEF Digits

\* Dividing by the first power.
LEMMA DivideByOne ==
  ASSUME NEW v \in Nat
  PROVE  v \div 1 = v
  OBVIOUS

\* Dividing twice.
LEMMA DivideTwice ==
  ASSUME NEW b \in {10, 16}, NEW u \in Nat, NEW p \in Nat \ {0}
  PROVE  (u \div b) \div p = u \div (b * p)
  <1>1. ASSUME NEW v \in Nat PROVE (v \div 10) \div p = v \div (10 * p)
    OBVIOUS
  <1>2. ASSUME NEW v \in Nat PROVE (v \div 16) \div p = v \div (16 * p)
    OBVIOUS
  <1> QED BY <1>1, <1>2

\* The last digit of a number and the rest of it.
LEMMA DivideFacts ==
  ASSUME NEW b \in {10, 16}, NEW u \in Nat
  PROVE  /\ u \div b \in Nat /\ u % b \in 0 .. b - 1
         /\ u >= b => u \div b < u /\ u \div b > 0
         /\ u < b => u % b = u /\ u \div b = 0
         /\ \A p \in Nat : u < b * p => u \div b < p
         /\ \A p \in Nat : b * p <= u => p <= u \div b
  <1>1. CASE b = 10
    BY <1>1
  <1>2. CASE b = 16
    BY <1>2
  <1> QED BY <1>1, <1>2

\* One digit less.
LEMMA NumeralGrows ==
  ASSUME NEW b \in {10, 16}, NEW v \in Nat, v >= b, v < Pow(b, 9), NEW dg
  PROVE  Numeral(v, b, dg) = Append(Numeral(v \div b, b, dg), dg[(v % b) + 1])
  <1> DEFINE w == v \div b
  <1>1. PICK k \in 1 .. 9 : Digits(v, b, k)
    BY DigitsExist
  <1>2. w \in Nat /\ w > 0
    BY DivideFacts
  <1>3. k # 1
    BY <1>1, Powers DEF Digits
  <1>4. k - 1 \in 1 .. 8 /\ k - 1 \in 0 .. 8 /\ k - 1 + 1 = k /\ k - 1 \in 1 .. 9
    BY <1>1, <1>3
  <1>5. w < Pow(b, k - 1)
    <2>1. Pow(b, k) = b * Pow(b, k - 1) /\ Pow(b, k - 1) \in Nat
      BY <1>4, Powers
    <2>2. v < b * Pow(b, k - 1)
      BY <1>1, <2>1 DEF Digits
    <2> QED BY <2>1, <2>2, DivideFacts
  <1>6. ASSUME NEW j \in 1 .. k - 1 - 1 PROVE Pow(b, j) <= w
    <2>1. j + 1 \in 1 .. k - 1 /\ j \in 0 .. 8 /\ j \in 0 .. 9
      BY <1>4
    <2>2. Pow(b, j + 1) <= v /\ Pow(b, j + 1) = b * Pow(b, j) /\ Pow(b, j) \in Nat
      BY <1>1, <2>1, Powers DEF Digits
    <2>3. b * Pow(b, j) <= v
      BY <2>2
    <2> QED BY <2>2, <2>3, DivideFacts
  <1>7. Digits(w, b, k - 1)
    BY <1>5, <1>6 DEF Digits
  <1> DEFINE nv == [i \in 1 .. k |-> dg[((v \div Pow(b, k - i)) % b) + 1]]
             nw == [i \in 1 .. k - 1 |-> dg[((w \div Pow(b, k - 1 - i)) % b) + 1]]
  <1>8. Numeral(v, b, dg) = nv
    <2>1. Numeral(v, b, dg) = Positions(v, b, k, dg)
      BY <1>1, NumeralIs
    <2> QED BY <2>1 DEF Positions
  <1>9. Numeral(w, b, dg) = nw
    <2> HIDE DEF w
    <2>1. Numeral(w, b, dg) = Positions(w, b, k - 1, dg)
      BY <1>2, <1>4, <1>7, NumeralIs
    <2> QED BY <2>1 DEF Positions
  <1>10. ASSUME NEW i \in 1 .. k - 1
         PROVE  nw[i] = nv[i]
    <2>1. k - 1 - i \in 0 .. 8 /\ k - 1 - i + 1 = k - i /\ k - 1 - i \in 0 .. 9 /\ i \in 1 .. k
      BY <1>4
    <2>2. Pow(b, k - i) = b * Pow(b, k - 1 - i) /\ Pow(b, k - 1 - i) \in Nat \ {0}
      BY <2>1, Powers
    <2>3. w \div Pow(b, k - 1 - i) = v \div Pow(b, k - i)
      <3>1. PICK p \in Nat \ {0} : p = Pow(b, k - 1 - i)
        BY <2>2
      <3>2. (v \div b) \div p = v \div (b * p)
        BY DivideTwice
      <3> QED BY <2>2, <3>1, <3>2
    <2> QED BY <2>1, <2>3
  <1>11. nv[k] = dg[(v % b) + 1]
    <2>1. k - k = 0 /\ k \in 1 .. k
      BY <1>4
    <2>2. v \div Pow(b, k - k) = v
      <3>1. Pow(b, k - k) = 1
        BY <2>1, Powers
      <3> QED BY <3>1, DivideByOne
    <2>3. nv[k] = dg[((v \div Pow(b, k - k)) % b) + 1]
      BY <2>1
    <2> QED BY <2>2, <2>3
  <1>12. k - 1 \in Nat /\ k \in Nat
    BY <1>4
  <1>13. nv = Append(nw, nv[k])
    <2>1. nw = [i \in 1 .. k - 1 |-> nv[i]]
      BY <1>10
    <2>2. nv = [i \in 1 .. k |-> nv[i]]
      OBVIOUS
    <2> HIDE DEF nv, nw
    <2>3. Append([i \in 1 .. k - 1 |-> nv[i]], nv[k]) = [i \in 1 .. k |-> nv[i]]
      BY <1>12
    <2> QED BY <2>1, <2>2, <2>3
  <1> QED BY <1>8, <1>9, <1>11, <1>13

\* A number below its base is one digit.
LEMMA NumeralOne ==
  ASSUME NEW b \in {10, 16}, NEW v \in Nat, v < b, NEW dg
  PROVE  Numeral(v, b, dg) = <<dg[(v % b) + 1]>>
  <1>1. Digits(v, b, 1)
    BY Powers DEF Digits
  <1>2. Numeral(v, b, dg) = [i \in 1 .. 1 |-> dg[((v \div Pow(b, 1 - i)) % b) + 1]]
    BY <1>1, NumeralIs DEF Positions
  <1>3. \A i \in 1 .. 1 : v \div Pow(b, 1 - i) = v
    <2> TAKE i \in 1 .. 1
    <2>1. 1 - i = 0
      OBVIOUS
    <2>2. v \div 1 = v
      OBVIOUS
    <2> QED BY <2>1, <2>2, Powers
  <1>4. Numeral(v, b, dg) = [i \in 1 .. 1 |-> dg[(v % b) + 1]]
    BY <1>2, <1>3
  <1> QED BY <1>4

-----------------------------------------------------------------------------
(* NumString against positional notation *)

\* The notations of printf_num.
Flags == {"No", "Lower", "Upper"}

\* A digit is a character.
LEMMA DigitChars ==
  ASSUME NEW hex \in Flags, NEW i \in 0 .. 15
  PROVE  DigitsOf(hex)[i + 1] \in Char
  <1>1. i + 1 \in 1 .. 16
    OBVIOUS
  <1>2. hexArray[i + 1] \in Own
    <2>1. \A j \in 1 .. 16 : hexArray[j] \in
             {"0", "1", "2", "3", "4", "5", "6", "7", "8", "9", "a", "b", "c", "d", "e", "f"}
      BY DEF hexArray
    <2> QED BY <1>1, <2>1 DEF Own
  <1>3. HEXArray[i + 1] \in Own
    <2>1. /\ HEXArray[11] = "A" /\ HEXArray[12] = "B" /\ HEXArray[13] = "C"
          /\ HEXArray[14] = "D" /\ HEXArray[15] = "E" /\ HEXArray[16] = "F"
      BY DEF HEXArray, hexArray
    <2>2. i + 1 \notin {11, 12, 13, 14, 15, 16} => HEXArray[i + 1] = hexArray[i + 1]
      BY <1>1 DEF HEXArray, hexArray
    <2> QED BY <1>2, <2>1, <2>2 DEF Own
  <1> QED BY <1>2, <1>3, FormatsAssumption DEF DigitsOf

\* The base is ten or sixteen.
LEMMA BaseType ==
  ASSUME NEW hex \in Flags
  PROVE  Base(hex) \in {10, 16}
  BY DEF Base, Flags

\* A numeral is a text.
LEMMA NumeralType ==
  ASSUME NEW hex \in Flags, NEW v \in Nat, v < Pow(Base(hex), 9)
  PROVE  Numeral(v, Base(hex), DigitsOf(hex)) \in Seq(Char)
  <1> DEFINE dg == DigitsOf(hex)
  <1>1. PICK b \in {10, 16} : b = Base(hex)
    BY BaseType
  <1>2. PICK k \in 1 .. 9 : Digits(v, b, k)
    BY <1>1, DigitsExist
  <1>3. ASSUME NEW i \in 1 .. k
        PROVE  dg[((v \div Pow(b, k - i)) % b) + 1] \in Char
    <2>1. k - i \in 0 .. 9
      OBVIOUS
    <2>2. Pow(b, k - i) \in Nat \ {0}
      BY <2>1, Powers
    <2>3. v \div Pow(b, k - i) \in Nat
      BY <2>2
    <2>4. (v \div Pow(b, k - i)) % b \in 0 .. b - 1
      BY <2>3, DivideFacts
    <2>5. (v \div Pow(b, k - i)) % b \in 0 .. 15
      BY <1>1, <2>4
    <2> QED BY <2>5, DigitChars
  <1> HIDE DEF dg
  <1>4. Positions(v, b, k, dg) \in Seq(Char)
    <2>1. Positions(v, b, k, dg) \in [1 .. k -> Char]
      BY <1>3 DEF Positions
    <2> QED BY <2>1
  <1>5. Numeral(v, b, dg) = Positions(v, b, k, dg)
    BY <1>2, NumeralIs
  <1> QED BY <1>1, <1>4, <1>5 DEF dg

\* The digits that the loops of printf_num write for each number up to u.
Spells(g, u, b, dg) ==
  g = [v \in 0 .. u |-> IF v < b THEN <<dg[(v % b) + 1]>>
                        ELSE Append(g[v \div b], dg[(v % b) + 1])]

\* The loops of printf_num write the digits of positional notation: a least
\* number that they spell otherwise would have a rest that they spell otherwise.
LEMMA NumStringIs ==
  ASSUME NEW hex \in Flags, NEW u \in Nat, u < Pow(Base(hex), 9)
  PROVE  NumString(u, hex) = Numeral(u, Base(hex), DigitsOf(hex))
  <1> DEFINE dg == DigitsOf(hex)
  <1>1. PICK b \in {10, 16} : b = Base(hex)
    BY BaseType
  <1>2. Pow(b, 9) \in Nat
    BY Powers
  <1>3. ASSUME NEW v \in 0 .. u
        PROVE  /\ v \in Nat /\ v < Pow(b, 9)
               /\ v >= b => v \div b \in 0 .. u /\ v \div b < v
    <2>1. v \in Nat /\ v < Pow(b, 9)
      BY <1>1, <1>2
    <2>2. v >= b => v \div b \in 0 .. u /\ v \div b < v
      BY <2>1, DivideFacts
    <2> QED BY <2>1, <2>2
  <1> HIDE DEF dg
  <1>4. ASSUME NEW v \in 0 .. u
        PROVE  Numeral(v, b, dg) = IF v < b THEN <<dg[(v % b) + 1]>>
                                   ELSE Append(Numeral(v \div b, b, dg), dg[(v % b) + 1])
    <2>1. CASE v < b
      BY <1>3, <2>1, NumeralOne
    <2>2. CASE ~(v < b)
      <3>1. v >= b
        BY <1>1, <1>3, <2>2
      <3> QED BY <1>3, <2>2, <3>1, NumeralGrows
    <2> QED BY <2>1, <2>2
  <1>5. PICK n : n = [v \in 0 .. u |-> Numeral(v, b, dg)]
    OBVIOUS
  <1>6. Spells(n, u, b, dg)
    <2>1. ASSUME NEW v \in 0 .. u
          PROVE  n[v] = IF v < b THEN <<dg[(v % b) + 1]>>
                        ELSE Append(n[v \div b], dg[(v % b) + 1])
      <3>1. n[v] = Numeral(v, b, dg)
        BY <1>5
      <3>2. CASE v < b
        BY <1>4, <3>1, <3>2
      <3>3. CASE ~(v < b)
        <4>1. v \div b \in 0 .. u
          BY <1>1, <1>3, <3>3
        <4>2. n[v \div b] = Numeral(v \div b, b, dg)
          BY <1>5, <4>1
        <4> QED BY <1>4, <3>1, <3>3, <4>2
      <3> QED BY <3>2, <3>3
    <2> QED BY <1>5, <2>1 DEF Spells
  <1> DEFINE g == CHOOSE f : Spells(f, u, b, dg)
  <1>7. Spells(g, u, b, dg)
    BY <1>6
  <1>8. NumString(u, hex) = g[u]
    <2>1. NumString(u, hex) =
            (CHOOSE f : f = [v \in 0 .. u |->
                               IF v < Base(hex) THEN <<DigitsOf(hex)[(v % Base(hex)) + 1]>>
                               ELSE Append(f[v \div Base(hex)],
                                           DigitsOf(hex)[(v % Base(hex)) + 1])])[u]
      BY DEF NumString
    <2> QED BY <1>1, <2>1 DEF Spells, dg
  <1> HIDE DEF g
  <1> DEFINE bad == {v \in 0 .. u : g[v] # Numeral(v, b, dg)}
  <1>9. bad = {}
    <2> SUFFICES ASSUME bad # {} PROVE FALSE
      OBVIOUS
    <2>1. bad \subseteq Nat
      OBVIOUS
    <2> HIDE DEF bad
    <2>2. PICK v \in bad : \A j \in bad : v <= j
      BY <2>1, LeastExists
    <2>3. v \in 0 .. u /\ g[v] # Numeral(v, b, dg)
      BY <2>2 DEF bad
    <2>4. g[v] = IF v < b THEN <<dg[(v % b) + 1]>>
                 ELSE Append(g[v \div b], dg[(v % b) + 1])
      BY <1>7, <2>3 DEF Spells
    <2>5. CASE v < b
      BY <1>4, <2>3, <2>4, <2>5
    <2>6. CASE ~(v < b)
      <3>1. v \div b \in 0 .. u /\ v \div b < v
        BY <1>1, <1>3, <2>3, <2>6
      <3>2. v \div b \notin bad
        BY <2>2, <2>3, <3>1
      <3>3. g[v \div b] = Numeral(v \div b, b, dg)
        BY <3>1, <3>2 DEF bad
      <3> QED BY <1>4, <2>3, <2>4, <2>6, <3>3
    <2> QED BY <2>5, <2>6
  <1>10. g[u] = Numeral(u, b, dg)
    <2>1. u \in 0 .. u
      OBVIOUS
    <2> QED BY <1>9, <2>1
  <1> QED BY <1>1, <1>8, <1>10 DEF dg

-----------------------------------------------------------------------------
(* Sequences of any length *)

\* Texts are closed under concatenation.
LEMMA CharSeqs ==
  ASSUME NEW s \in Seq(Char), NEW t \in Seq(Char)
  PROVE  s \o t \in Seq(Char)
  BY ConcatProperties

\* Concatenation is associative.
LEMMA SeqsAssociate ==
  ASSUME NEW S, NEW s \in Seq(S), NEW t \in Seq(S), NEW u \in Seq(S)
  PROVE  s \o (t \o u) = (s \o t) \o u
  <1> DEFINE l == s \o (t \o u)
             r == (s \o t) \o u
  <1>1. Len(s) \in Nat /\ Len(t) \in Nat /\ Len(u) \in Nat
    OBVIOUS
  <1>2. /\ s \o t \in Seq(S) /\ Len(s \o t) = Len(s) + Len(t)
        /\ \A i \in 1 .. Len(s) + Len(t) :
              (s \o t)[i] = IF i <= Len(s) THEN s[i] ELSE t[i - Len(s)]
    BY ConcatProperties
  <1>3. /\ t \o u \in Seq(S) /\ Len(t \o u) = Len(t) + Len(u)
        /\ \A i \in 1 .. Len(t) + Len(u) :
              (t \o u)[i] = IF i <= Len(t) THEN t[i] ELSE u[i - Len(t)]
    BY ConcatProperties
  <1>4. /\ l \in Seq(S) /\ Len(l) = Len(s) + (Len(t) + Len(u))
        /\ \A i \in 1 .. Len(s) + (Len(t) + Len(u)) :
              l[i] = IF i <= Len(s) THEN s[i] ELSE (t \o u)[i - Len(s)]
    BY <1>3, ConcatProperties
  <1>5. /\ r \in Seq(S) /\ Len(r) = (Len(s) + Len(t)) + Len(u)
        /\ \A i \in 1 .. (Len(s) + Len(t)) + Len(u) :
              r[i] = IF i <= Len(s) + Len(t) THEN (s \o t)[i] ELSE u[i - (Len(s) + Len(t))]
    BY <1>2, ConcatProperties
  <1> HIDE DEF l, r
  <1>6. Len(l) = Len(r)
    BY <1>1, <1>4, <1>5
  <1>7. ASSUME NEW i \in 1 .. Len(l)
        PROVE  l[i] = r[i]
    <2>1. i \in 1 .. Len(s) + (Len(t) + Len(u)) /\ i \in 1 .. (Len(s) + Len(t)) + Len(u)
      BY <1>1, <1>4
    <2>2. CASE i <= Len(s)
      <3>1. i \in 1 .. Len(s) + Len(t) /\ i <= Len(s) + Len(t)
        BY <1>1, <2>1, <2>2
      <3> QED BY <1>2, <1>4, <1>5, <2>1, <2>2, <3>1
    <2>3. CASE ~(i <= Len(s)) /\ i <= Len(s) + Len(t)
      <3>1. i \in 1 .. Len(s) + Len(t) /\ i - Len(s) \in 1 .. Len(t) + Len(u) /\ i - Len(s) <= Len(t)
        BY <1>1, <2>1, <2>3
      <3> QED BY <1>2, <1>3, <1>4, <1>5, <2>1, <2>3, <3>1
    <2>4. CASE ~(i <= Len(s) + Len(t))
      <3>1. /\ ~(i <= Len(s)) /\ i - Len(s) \in 1 .. Len(t) + Len(u) /\ ~(i - Len(s) <= Len(t))
            /\ i - Len(s) - Len(t) = i - (Len(s) + Len(t))
        BY <1>1, <2>1, <2>4
      <3> QED BY <1>3, <1>4, <1>5, <2>1, <2>4, <3>1
    <2> QED BY <2>2, <2>3, <2>4
  <1>8. l = r
    BY <1>4, <1>5, <1>6, <1>7, SeqEqual
  <1> QED BY <1>8 DEF l, r

\* The same as a predicate, for the places where the provers would go on to
\* rewrite with the equation.
Associate(s, t, u) == s \o (t \o u) = (s \o t) \o u

LEMMA TheyAssociate ==
  ASSUME NEW S, NEW s \in Seq(S), NEW t \in Seq(S), NEW u \in Seq(S)
  PROVE  Associate(s, t, u)
  BY SeqsAssociate DEF Associate

\* The same of texts.
LEMMA CharsAssociate ==
  ASSUME NEW s \in Seq(Char), NEW t \in Seq(Char), NEW u \in Seq(Char)
  PROVE  s \o (t \o u) = (s \o t) \o u
  BY SeqsAssociate

\* The greatest of a set that contains its bound.
LEMMA MaxUpTo ==
  ASSUME NEW m \in Nat \ {0}, NEW s \in SUBSET (1 .. m), m \in s
  PROVE  Max(s) = m
  <1>1. m \in s /\ \A y \in s : m >= y
    OBVIOUS
  <1>2. Max(s) \in s /\ \A y \in s : Max(s) >= y
    BY <1>1 DEF Max
  <1>3. Max(s) \in Int /\ m \in Int
    <2>1. s \subseteq Int /\ m \in Int
      OBVIOUS
    <2> QED BY <1>2, <2>1
  <1>4. m >= Max(s) /\ Max(s) >= m
    BY <1>1, <1>2
  <1> QED BY <1>3, <1>4

\* a[s] is t followed by the pieces of w whose places are in s, in order.
Joined(a, t, w, n) ==
  /\ a \in [SUBSET (1 .. n) -> Seq(Char)] /\ a[{}] = t
  /\ \A s \in SUBSET (1 .. n) : s # {} =>
        Max(s) \in s /\ a[s] = a[s \ {Max(s)}] \o w[Max(s)]

\* Such an a exists: it is a recursive function on sets, smaller ones first.
LEMMA JoinedExists ==
  ASSUME NEW n \in Nat, NEW w \in [1 .. n -> Seq(Char)], NEW t \in Seq(Char)
  PROVE  \E a : Joined(a, t, w, n)
  <1> DEFINE bad == {m \in 0 .. n : ~\E a : Joined(a, t, w, m)}
  <1>1. bad = {}
    <2> SUFFICES ASSUME bad # {} PROVE FALSE
      OBVIOUS
    <2>1. bad \subseteq Nat
      OBVIOUS
    <2> HIDE DEF bad
    <2>2. PICK m \in bad : \A j \in bad : m <= j
      BY <2>1, LeastExists
    <2>3. m \in 0 .. n /\ ~\E a : Joined(a, t, w, m)
      BY <2>2 DEF bad
    <2>4. CASE m = 0
      <3> DEFINE a == [s \in SUBSET (1 .. 0) |-> t]
      <3>1. \A s \in SUBSET (1 .. 0) : s = {}
        OBVIOUS
      <3>2. Joined(a, t, w, 0)
        BY <3>1 DEF Joined
      <3> QED BY <2>3, <2>4, <3>2
    <2>5. CASE m # 0
      <3>1. m \in Nat \ {0} /\ m \in 1 .. n /\ m - 1 \in 0 .. n /\ m - 1 \notin bad
        BY <2>2, <2>3, <2>5
      <3>2. PICK a : Joined(a, t, w, m - 1)
        BY <3>1 DEF bad
      <3>3. PICK h : h = [s \in SUBSET (1 .. m) |->
                            IF m \in s THEN a[s \ {m}] \o w[m] ELSE a[s]]
        OBVIOUS
      <3>4. ASSUME NEW s \in SUBSET (1 .. m)
            PROVE  s \ {m} \in SUBSET (1 .. m - 1)
        BY <3>1
      <3>5. ASSUME NEW s \in SUBSET (1 .. m)
            PROVE  h[s] \in Seq(Char)
        <4>1. a[s \ {m}] \in Seq(Char) /\ w[m] \in Seq(Char)
          BY <3>1, <3>2, <3>4 DEF Joined
        <4>2. CASE m \in s
          BY <3>3, <4>1, <4>2, CharSeqs
        <4>3. CASE m \notin s
          BY <3>3, <4>1, <4>3
        <4> QED BY <4>2, <4>3
      <3>6. h \in [SUBSET (1 .. m) -> Seq(Char)]
        BY <3>3, <3>5
      <3>7. h[{}] = t
        BY <3>2, <3>3 DEF Joined
      <3>8. ASSUME NEW s \in SUBSET (1 .. m), s # {}
            PROVE  Max(s) \in s /\ h[s] = h[s \ {Max(s)}] \o w[Max(s)]
        <4>1. CASE m \in s
          <5>1. Max(s) = m
            BY <3>1, <4>1, MaxUpTo
          <5>2. h[s] = a[s \ {m}] \o w[m]
            BY <3>3, <4>1
          <5>3. m \notin s \ {m} /\ s \ {m} \in SUBSET (1 .. m)
            OBVIOUS
          <5>4. h[s \ {m}] = a[s \ {m}]
            BY <3>3, <5>3
          <5> QED BY <4>1, <5>1, <5>2, <5>4
        <4>2. CASE m \notin s
          <5>1. h[s] = a[s]
            BY <3>3, <4>2
          <5>2. s \in SUBSET (1 .. m - 1)
            BY <3>1, <4>2
          <5>3. Max(s) \in s /\ a[s] = a[s \ {Max(s)}] \o w[Max(s)]
            BY <3>2, <3>8, <5>2 DEF Joined
          <5>4. s \ {Max(s)} \in SUBSET (1 .. m)
            OBVIOUS
          <5>5. h[s \ {Max(s)}] = a[s \ {Max(s)}]
            BY <3>3, <4>2, <5>4
          <5> QED BY <5>1, <5>3, <5>5
        <4> QED BY <4>1, <4>2
      <3>9. Joined(h, t, w, m)
        BY <3>6, <3>7, <3>8 DEF Joined
      <3> QED BY <2>3, <3>9
    <2> QED BY <2>4, <2>5
  <1>2. n \in 0 .. n
    OBVIOUS
  <1> QED BY <1>1, <1>2

\* The pieces of w after t, one by one.
Builds(S, p, t, w, n) ==
  /\ p \in [0 .. n -> Seq(S)] /\ p[0] = t
  /\ \A i \in 1 .. n : p[i] = p[i - 1] \o w[i]

\* Each step of a fold appends a piece to a cut text.
Steps(f, t, w, n) ==
  /\ n \in Nat /\ w \in [1 .. n -> Seq(Char)] /\ t \in Seq(Char)
  /\ f[{}] = Cut(t)
  /\ \A s \in SUBSET (1 .. n) : s # {} =>
        \A u \in Seq(Char) : f[s \ {Max(s)}] = Cut(u) => f[s] = Cut(u \o w[Max(s)])

\* So the fold ends with the pieces, cut.
LEMMA FoldEnds ==
  ASSUME NEW n, NEW w, NEW t, NEW p, NEW f, Builds(Char, p, t, w, n), Steps(f, t, w, n)
  PROVE  f[1 .. n] = Cut(p[n])
  <1>0. n \in Nat /\ w \in [1 .. n -> Seq(Char)] /\ t \in Seq(Char)
    BY DEF Steps
  <1> DEFINE bad == {m \in 0 .. n : f[1 .. m] # Cut(p[m])}
  <1>1. bad = {}
    <2> SUFFICES ASSUME bad # {} PROVE FALSE
      OBVIOUS
    <2>1. bad \subseteq Nat
      BY <1>0
    <2> HIDE DEF bad
    <2>2. PICK m \in bad : \A j \in bad : m <= j
      BY <2>1, LeastExists
    <2>3. m \in 0 .. n /\ f[1 .. m] # Cut(p[m])
      BY <2>2 DEF bad
    <2>4. CASE m = 0
      <3>1. 1 .. m = {}
        BY <2>4
      <3> QED BY <2>3, <2>4, <3>1 DEF Builds, Steps
    <2>5. CASE m # 0
      <3>1. m \in Nat \ {0} /\ m \in 1 .. n /\ m - 1 \in 0 .. n /\ m - 1 \notin bad
        BY <1>0, <2>2, <2>3, <2>5
      <3>2. f[1 .. m - 1] = Cut(p[m - 1]) /\ p[m - 1] \in Seq(Char) /\ p[m] = p[m - 1] \o w[m]
        BY <1>0, <3>1 DEF bad, Builds
      <3>3. 1 .. m \in SUBSET (1 .. n) /\ 1 .. m \in SUBSET (1 .. m) /\ m \in 1 .. m
        <4>1. \A j \in 1 .. m : j \in 1 .. n
          BY <1>0, <3>1
        <4> QED BY <3>1, <4>1
      <3>4. Max(1 .. m) = m
        BY <3>1, <3>3, MaxUpTo
      <3>5. (1 .. m) \ {m} = 1 .. m - 1
        <4>1. \A j \in Int : j \in (1 .. m) \ {m} <=> j \in 1 .. m - 1
          BY <3>1
        <4> QED BY <4>1
      <3>6. f[(1 .. m) \ {Max(1 .. m)}] = Cut(p[m - 1])
        BY <3>2, <3>4, <3>5
      <3>7. f[1 .. m] = Cut(p[m - 1] \o w[Max(1 .. m)])
        <4>1. 1 .. m # {}
          BY <3>3
        <4> QED BY <3>2, <3>3, <3>6, <4>1 DEF Steps
      <3> QED BY <2>3, <3>2, <3>4, <3>7
    <2> QED BY <2>4, <2>5
  <1>2. n \in 0 .. n
    BY <1>0
  <1> QED BY <1>1, <1>2

-----------------------------------------------------------------------------
(* FlattenSeq *)

\* FlattenSeq is the last value of its recursive function.
LEMMA FlattenUnfolds ==
  ASSUME NEW seqs, Len(seqs) \in Nat \ {0}
  PROVE  \E f : /\ f = [i \in 1 .. Len(seqs) |-> IF i = 1 THEN seqs[i] ELSE f[i - 1] \o seqs[i]]
                /\ FlattenSeq(seqs) = f[Len(seqs)]
  <1> DEFINE n == Len(seqs)
             Flattens(g, m) == g = [i \in 1 .. m |-> IF i = 1 THEN seqs[i] ELSE g[i - 1] \o seqs[i]]
             bad == {m \in 1 .. n : ~\E g : Flattens(g, m)}
  <1>1. bad = {}
    <2> SUFFICES ASSUME bad # {} PROVE FALSE
      OBVIOUS
    <2>1. bad \subseteq Nat
      <3> HIDE DEF Flattens
      <3> QED OBVIOUS
    <2> HIDE DEF bad
    <2>2. PICK m \in bad : \A j \in bad : m <= j
      BY <2>1, LeastExists
    <2>3. m \in 1 .. n /\ ~\E g : Flattens(g, m)
      BY <2>2 DEF bad
    <2>4. CASE m = 1
      <3> DEFINE g == [i \in 1 .. 1 |-> seqs[i]]
      <3>1. Flattens(g, m)
        BY <2>4
      <3> QED BY <2>3, <3>1
    <2>5. CASE m # 1
      <3>1. m - 1 \in 1 .. n /\ m - 1 \notin bad
        BY <2>2, <2>3, <2>5
      <3>2. PICK g : Flattens(g, m - 1)
        BY <3>1 DEF bad
      <3> DEFINE h == [i \in 1 .. m |-> IF i = m THEN g[m - 1] \o seqs[m] ELSE g[i]]
      <3>3. Flattens(h, m)
        <4> SUFFICES ASSUME NEW i \in 1 .. m
                     PROVE  h[i] = IF i = 1 THEN seqs[i] ELSE h[i - 1] \o seqs[i]
          OBVIOUS
        <4>1. CASE i = m
          <5>1. m \in 1 .. m /\ m - 1 \in 1 .. m /\ m - 1 # m
            BY <2>3, <2>5
          <5>2. h[m - 1] = g[m - 1]
            BY <5>1
          <5>3. h[m] = g[m - 1] \o seqs[m]
            BY <5>1
          <5> HIDE DEF h
          <5> QED BY <2>5, <4>1, <5>2, <5>3
        <4>2. CASE i # m
          <5>1. /\ i \in 1 .. m - 1 /\ h[i] = g[i]
                /\ i # 1 => i - 1 \in 1 .. m /\ i - 1 # m /\ h[i - 1] = g[i - 1]
            BY <2>3, <4>2
          <5>2. g[i] = IF i = 1 THEN seqs[i] ELSE g[i - 1] \o seqs[i]
            BY <3>2, <5>1
          <5> QED BY <5>1, <5>2
        <4> QED BY <4>1, <4>2
      <3> QED BY <2>3, <3>3
    <2> QED BY <2>4, <2>5
  <1>2. \E g : Flattens(g, n)
    <2>1. n \in 1 .. n
      OBVIOUS
    <2> QED BY <1>1, <2>1
  <1> DEFINE f == CHOOSE g : Flattens(g, n)
  <1>3. Flattens(f, n)
    BY <1>2
  <1>4. FlattenSeq(seqs) = f[n]
    BY DEF FlattenSeq
  <1> QED BY <1>3, <1>4

\* So it is what the pieces build from the empty sequence.
LEMMA FlattenBuilds ==
  ASSUME NEW S, NEW w \in Seq(Seq(S))
  PROVE  \E p : Builds(S, p, <<>>, w, Len(w)) /\ FlattenSeq(w) = p[Len(w)]
  <1> DEFINE n == Len(w)
  <1>1. n \in Nat /\ \A i \in 1 .. n : w[i] \in Seq(S)
    OBVIOUS
  <1>2. CASE n = 0
    <2>1. FlattenSeq(w) = <<>>
      BY <1>2 DEF FlattenSeq
    <2>2. Builds(S, [i \in 0 .. 0 |-> <<>>], <<>>, w, 0)
      BY DEF Builds
    <2> QED BY <1>2, <2>1, <2>2
  <1>3. CASE n # 0
    <2>1. PICK f : /\ f = [i \in 1 .. n |-> IF i = 1 THEN w[i] ELSE f[i - 1] \o w[i]]
                   /\ FlattenSeq(w) = f[n]
      BY <1>1, <1>3, FlattenUnfolds
    <2> HIDE DEF n
    <2>2. PICK p : p = [i \in 0 .. n |-> IF i = 0 THEN <<>> ELSE f[i]]
      OBVIOUS
    <2>3. ASSUME NEW i \in 1 .. n
          PROVE  p[i] = p[i - 1] \o w[i]
      <3>1. i \in 0 .. n /\ i - 1 \in 0 .. n /\ p[i] = f[i]
        BY <1>1, <2>2
      <3>2. CASE i = 1
        <4>1. p[i - 1] = <<>> /\ p[i] = w[i]
          BY <2>1, <2>2, <3>1, <3>2
        <4> QED BY <1>1, <4>1
      <3>3. CASE i # 1
        <4>1. i - 1 # 0 /\ p[i - 1] = f[i - 1]
          BY <2>2, <3>1, <3>3
        <4> QED BY <2>1, <3>1, <3>3, <4>1
      <3> QED BY <3>2, <3>3
    <2>4. p[0] = <<>>
      BY <1>1, <2>2
    <2>5. \A i \in 0 .. n : p[i] \in Seq(S)
      <3> DEFINE bad == {m \in 0 .. n : p[m] \notin Seq(S)}
      <3> SUFFICES ASSUME bad # {} PROVE FALSE
        OBVIOUS
      <3>1. bad \subseteq Nat
        BY <1>1
      <3> HIDE DEF bad
      <3>2. PICK m \in bad : \A j \in bad : m <= j
        BY <3>1, LeastExists
      <3>3. m \in 0 .. n /\ p[m] \notin Seq(S)
        BY <3>2 DEF bad
      <3>4. m # 0
        <4>1. <<>> \in Seq(S)
          OBVIOUS
        <4> QED BY <2>4, <3>3, <4>1
      <3>5. m \in 1 .. n /\ m - 1 \in 0 .. n /\ m - 1 \notin bad
        BY <1>1, <3>2, <3>3, <3>4
      <3>6. p[m - 1] \in Seq(S) /\ p[m] = p[m - 1] \o w[m] /\ w[m] \in Seq(S)
        BY <1>1, <2>3, <3>5 DEF bad
      <3> QED BY <3>3, <3>6, ConcatProperties
    <2>6. Builds(S, p, <<>>, w, n)
      BY <2>2, <2>3, <2>4, <2>5 DEF Builds
    <2>7. FlattenSeq(w) = p[n]
      BY <1>1, <1>3, <2>1, <2>2
    <2> QED BY <2>6, <2>7 DEF n
  <1> QED BY <1>2, <1>3

\* Flattening sequences over S gives a sequence over S.
LEMMA FlattenType ==
  ASSUME NEW S, NEW w \in Seq(Seq(S))
  PROVE  FlattenSeq(w) \in Seq(S)
  <1>1. PICK p : Builds(S, p, <<>>, w, Len(w)) /\ FlattenSeq(w) = p[Len(w)]
    BY FlattenBuilds
  <1>2. Len(w) \in 0 .. Len(w)
    OBVIOUS
  <1> QED BY <1>1, <1>2 DEF Builds

\* One more piece.
LEMMA FlattenAppend ==
  ASSUME NEW S, NEW w \in Seq(Seq(S)), NEW s \in Seq(S)
  PROVE  FlattenSeq(Append(w, s)) = FlattenSeq(w) \o s
  <1> DEFINE v == Append(w, s)
             n == Len(w)
  <1>1. /\ v \in Seq(Seq(S)) /\ Len(v) = n + 1 /\ n \in Nat /\ v[n + 1] = s
        /\ \A i \in 1 .. n : v[i] = w[i]
    OBVIOUS
  <1>2. PICK p : Builds(S, p, <<>>, w, n) /\ FlattenSeq(w) = p[n]
    BY FlattenBuilds
  <1>3. PICK q : Builds(S, q, <<>>, v, n + 1) /\ FlattenSeq(v) = q[n + 1]
    BY <1>1, FlattenBuilds
  <1> HIDE DEF v, n
  <1> DEFINE bad == {m \in 0 .. n : p[m] # q[m]}
  <1>4. bad = {}
    <2> SUFFICES ASSUME bad # {} PROVE FALSE
      OBVIOUS
    <2>1. bad \subseteq Nat
      BY <1>1
    <2> HIDE DEF bad
    <2>2. PICK m \in bad : \A j \in bad : m <= j
      BY <2>1, LeastExists
    <2>3. m \in 0 .. n /\ p[m] # q[m]
      BY <2>2 DEF bad
    <2>4. m # 0
      BY <1>2, <1>3, <2>3 DEF Builds
    <2>5. m \in 1 .. n /\ m \in 1 .. n + 1 /\ m - 1 \in 0 .. n /\ m - 1 \notin bad
      BY <1>1, <2>2, <2>3, <2>4
    <2>6. p[m] = p[m - 1] \o w[m] /\ q[m] = q[m - 1] \o v[m]
      BY <1>2, <1>3, <2>5 DEF Builds
    <2> QED BY <1>1, <2>3, <2>5, <2>6 DEF bad
  <1>5. n \in 0 .. n /\ n + 1 \in 1 .. n + 1 /\ n + 1 - 1 = n
    BY <1>1
  <1>6. q[n + 1] = q[n] \o v[n + 1] /\ q[n] = p[n]
    <2>1. q[n] = p[n]
      BY <1>4, <1>5
    <2> HIDE DEF bad
    <2>2. PICK k : k = n + 1
      OBVIOUS
    <2>3. k \in 1 .. k /\ k - 1 = n
      BY <1>1, <2>2
    <2>4. \A i \in 1 .. k : q[i] = q[i - 1] \o v[i]
      BY <1>3, <2>2 DEF Builds
    <2>5. q[k] = q[k - 1] \o v[k]
      BY <2>3, <2>4
    <2> QED BY <2>1, <2>2, <2>3, <2>5
  <1> QED BY <1>1, <1>2, <1>3, <1>6 DEF v

\* The same after t.
LEMMA FlattenAfter ==
  ASSUME NEW w \in Seq(Seq(Char)), NEW t \in Seq(Char)
  PROVE  \E p : Builds(Char, p, t, w, Len(w)) /\ p[Len(w)] = t \o FlattenSeq(w)
  <1> DEFINE n == Len(w)
  <1>1. n \in Nat /\ \A i \in 1 .. n : w[i] \in Seq(Char)
    OBVIOUS
  <1>2. PICK q : Builds(Char, q, <<>>, w, n) /\ FlattenSeq(w) = q[n]
    BY FlattenBuilds
  <1> HIDE DEF n
  <1>3. PICK p : p = [i \in 0 .. n |-> t \o q[i]]
    OBVIOUS
  <1>4. p[0] = t
    <2>1. q[0] = <<>> /\ 0 \in 0 .. n
      BY <1>1, <1>2 DEF Builds
    <2>2. t \o <<>> = t
      BY ConcatEmptySeq
    <2> QED BY <1>3, <2>1, <2>2
  <1>5. \A i \in 0 .. n : p[i] \in Seq(Char)
    BY <1>2, <1>3, CharSeqs DEF Builds
  <1>6. ASSUME NEW i \in 1 .. n
        PROVE  p[i] = p[i - 1] \o w[i]
    <2>1. i \in 0 .. n /\ i - 1 \in 0 .. n
      BY <1>1
    <2>2. q[i] = q[i - 1] \o w[i] /\ q[i - 1] \in Seq(Char) /\ w[i] \in Seq(Char)
      BY <1>1, <1>2, <2>1 DEF Builds
    <2>3. t \o (q[i - 1] \o w[i]) = (t \o q[i - 1]) \o w[i]
      BY <2>2, CharsAssociate
    <2> QED BY <1>3, <2>1, <2>2, <2>3
  <1>7. Builds(Char, p, t, w, n)
    BY <1>3, <1>4, <1>5, <1>6 DEF Builds
  <1>8. p[n] = t \o FlattenSeq(w)
    BY <1>1, <1>2, <1>3
  <1> QED BY <1>7, <1>8 DEF n

\* The pieces of w and of v, flattened apart.
LEMMA FlattenConcat ==
  ASSUME NEW w \in Seq(Seq(Char)), NEW v \in Seq(Seq(Char))
  PROVE  FlattenSeq(w \o v) = FlattenSeq(w) \o FlattenSeq(v)
  <1> DEFINE n == Len(v)
             t == FlattenSeq(w)
             P == Seq(Char)
  <1>1. n \in Nat /\ \A i \in 1 .. n : v[i] \in Seq(Char)
    OBVIOUS
  <1>2. t \in Seq(Char)
    BY FlattenType
  <1>3. PICK p : Builds(Char, p, t, v, n) /\ p[n] = t \o FlattenSeq(v)
    BY <1>2, FlattenAfter
  <1> HIDE DEF n, t
  <1>4. /\ w \o SubSeq(v, 1, 0) = w
        /\ \A i \in 1 .. n : /\ w \o SubSeq(v, 1, i - 1) \in Seq(Seq(Char))
                            /\ w \o SubSeq(v, 1, i) = Append(w \o SubSeq(v, 1, i - 1), v[i])
    <2>1. SubSeq(v, 1, 0) = <<>> /\ w \o <<>> = w
      BY SubSeqEmpty, ConcatEmptySeq
    <2>2. ASSUME NEW i \in 1 .. n
          PROVE  /\ w \o SubSeq(v, 1, i - 1) \in Seq(Seq(Char))
                 /\ w \o SubSeq(v, 1, i) = Append(w \o SubSeq(v, 1, i - 1), v[i])
      <3> DEFINE u == SubSeq(v, 1, i - 1)
      <3>1. i - 1 \in 0 .. n /\ i \in 1 .. n
        BY <1>1
      <3>2. \A j \in 1 .. i - 1 : v[j] \in Seq(Char)
        BY <1>1
      <3>3. /\ u \in Seq(P) /\ Len(u) = i - 1
            /\ \A j \in 1 .. i - 1 : u[j] = v[j]
        BY <1>1, <3>1, <3>2
      <3>4. /\ SubSeq(v, 1, i) \in Seq(P) /\ Len(SubSeq(v, 1, i)) = i
            /\ \A j \in 1 .. i : SubSeq(v, 1, i)[j] = v[j]
        BY <1>1
      <3>5. Append(u, v[i]) = SubSeq(v, 1, i)
        <4>1. /\ Append(u, v[i]) \in Seq(P) /\ Len(Append(u, v[i])) = i
              /\ \A j \in 1 .. i : Append(u, v[i])[j] = IF j = i THEN v[i] ELSE u[j]
          <5> HIDE DEF u
          <5> QED BY <1>1, <3>3
        <4>2. \A j \in 1 .. i : Append(u, v[i])[j] = SubSeq(v, 1, i)[j]
          <5> TAKE j \in 1 .. i
          <5>1. CASE j = i
            BY <3>4, <4>1, <5>1
          <5>2. CASE j # i
            <6>1. j \in 1 .. i - 1
              BY <5>2
            <6> QED BY <3>3, <3>4, <4>1, <5>2, <6>1
          <5> QED BY <5>1, <5>2
        <4> QED BY <3>4, <4>1, <4>2, SeqEqual
      <3> HIDE DEF u
      <3>6. w \o Append(u, v[i]) = Append(w \o u, v[i])
        <4>1. v[i] \in P /\ w \in Seq(P)
          BY <1>1
        <4>2. u \in Seq(P) /\ <<v[i]>> \in Seq(P)
          BY <3>3, <4>1
        <4>3. w \o (u \o <<v[i]>>) = (w \o u) \o <<v[i]>>
          <5>1. Associate(w, u, <<v[i]>>)
            BY <4>1, <4>2, TheyAssociate
          <5> QED BY <5>1 DEF Associate
        <4>4. Append(u, v[i]) = u \o <<v[i]>>
          BY <4>1, <4>2, AppendIsConcat
        <4>5. w \o u \in Seq(P)
          BY <4>1, <4>2, ConcatProperties
        <4>6. Append(w \o u, v[i]) = (w \o u) \o <<v[i]>>
          BY <4>1, <4>5, AppendIsConcat
        <4> QED BY <4>3, <4>4, <4>6
      <3>7. w \o u \in Seq(P)
        BY <3>3, ConcatProperties
      <3> QED BY <3>5, <3>6, <3>7 DEF u
    <2> QED BY <2>1, <2>2
  <1> DEFINE bad == {m \in 0 .. n : FlattenSeq(w \o SubSeq(v, 1, m)) # p[m]}
  <1>5. bad = {}
    <2> SUFFICES ASSUME bad # {} PROVE FALSE
      OBVIOUS
    <2>1. bad \subseteq Nat
      BY <1>1
    <2> HIDE DEF bad
    <2>2. PICK m \in bad : \A j \in bad : m <= j
      BY <2>1, LeastExists
    <2>3. m \in 0 .. n /\ FlattenSeq(w \o SubSeq(v, 1, m)) # p[m]
      BY <2>2 DEF bad
    <2>4. m # 0
      BY <1>3, <1>4, <2>3 DEF Builds, t
    <2>5. m \in 1 .. n /\ m - 1 \in 0 .. n /\ m - 1 \notin bad
      BY <1>1, <2>2, <2>3, <2>4
    <2>6. FlattenSeq(w \o SubSeq(v, 1, m - 1)) = p[m - 1] /\ p[m] = p[m - 1] \o v[m]
      BY <1>3, <2>5 DEF bad, Builds
    <2>7. FlattenSeq(Append(w \o SubSeq(v, 1, m - 1), v[m])) = FlattenSeq(w \o SubSeq(v, 1, m - 1)) \o v[m]
      BY <1>1, <1>4, <2>5, FlattenAppend
    <2> QED BY <1>4, <2>3, <2>5, <2>6, <2>7
  <1>6. FlattenSeq(w \o SubSeq(v, 1, n)) = p[n]
    <2>1. n \in 0 .. n
      BY <1>1
    <2> QED BY <1>5, <2>1
  <1>7. SubSeq(v, 1, n) = v
    BY SubSeqFull DEF n
  <1> QED BY <1>3, <1>6, <1>7 DEF t

-----------------------------------------------------------------------------
(* printf_num over a cut text *)

\* The loop over the padding of printf_num.
LEMMA PaddingFolds ==
  ASSUME NEW t \in Seq(Char), NEW ch \in Char, NEW n \in Nat
  PROVE  FoldLeft(append_char, Cut(t), Repeat(n, ch)) = Cut(t \o Repeat(n, ch))
  <1>1. PICK seq : seq = Repeat(n, ch)
    OBVIOUS
  <1>2. DOMAIN seq = 1 .. n /\ \A i \in 1 .. n : seq[i] = ch
    BY <1>1 DEF Repeat
  <1>3. PICK w : w = [i \in 1 .. n |-> <<ch>>]
    OBVIOUS
  <1>4. w \in [1 .. n -> Seq(Char)] /\ \A i \in 1 .. n : w[i] = <<ch>>
    BY <1>3
  <1>5. PICK p : p = [i \in 0 .. n |-> t \o Repeat(i, ch)]
    OBVIOUS
  <1>6. \A i \in 0 .. n : Repeat(i, ch) \in Seq(Char) /\ Len(Repeat(i, ch)) = i
    <2> TAKE i \in 0 .. n
    <2>1. Repeat(i, ch) \in [1 .. i -> Char]
      BY DEF Repeat
    <2> QED BY <2>1
  <1>7. Builds(Char, p, t, w, n)
    <2>1. \A i \in 0 .. n : p[i] \in Seq(Char)
      BY <1>5, <1>6, CharSeqs
    <2>2. p[0] = t
      <3>1. Repeat(0, ch) = <<>>
        BY DEF Repeat
      <3>2. t \o <<>> = t
        BY ConcatEmptySeq
      <3>3. 0 \in 0 .. n
        OBVIOUS
      <3> QED BY <1>5, <3>1, <3>2, <3>3
    <2>3. ASSUME NEW i \in 1 .. n
          PROVE  p[i] = p[i - 1] \o w[i]
      <3>1. i \in 0 .. n /\ i - 1 \in 0 .. n
        OBVIOUS
      <3>2. Repeat(i, ch) = Repeat(i - 1, ch) \o <<ch>>
        <4>1. Append([j \in 1 .. i - 1 |-> ch], ch) = [j \in 1 .. i |-> ch]
          OBVIOUS
        <4>2. Append(Repeat(i - 1, ch), ch) = Repeat(i, ch)
          BY <4>1 DEF Repeat
        <4> QED BY <1>6, <3>1, <4>2, AppendIsConcat
      <3>3. <<ch>> \in Seq(Char) /\ Repeat(i - 1, ch) \in Seq(Char)
        BY <1>6, <3>1
      <3>4. t \o (Repeat(i - 1, ch) \o <<ch>>) = (t \o Repeat(i - 1, ch)) \o <<ch>>
        BY <3>3, CharsAssociate
      <3> QED BY <1>4, <1>5, <3>1, <3>2, <3>4
    <2> QED BY <1>5, <2>1, <2>2, <2>3 DEF Builds
  <1> DEFINE Folds(f) == f = [s \in SUBSET (1 .. n) |->
                                IF s = {} THEN Cut(t) ELSE append_char(f[s \ {Max(s)}], seq[Max(s)])]
             f == CHOOSE g : Folds(g)
  <1>8. \E g : Folds(g)
    <2>1. PICK a : Joined(a, t, w, n)
      BY <1>4, JoinedExists
    <2>2. PICK g : g = [s \in SUBSET (1 .. n) |-> Cut(a[s])]
      OBVIOUS
    <2>3. ASSUME NEW s \in SUBSET (1 .. n)
          PROVE  g[s] = IF s = {} THEN Cut(t) ELSE append_char(g[s \ {Max(s)}], seq[Max(s)])
      <3>1. CASE s = {}
        BY <2>1, <2>2, <3>1 DEF Joined
      <3>2. CASE s # {}
        <4>1. Max(s) \in 1 .. n /\ a[s] = a[s \ {Max(s)}] \o w[Max(s)]
          BY <2>1, <3>2 DEF Joined
        <4>2. s \ {Max(s)} \in SUBSET (1 .. n) /\ a[s \ {Max(s)}] \in Seq(Char)
          BY <2>1 DEF Joined
        <4>3. append_char(Cut(a[s \ {Max(s)}]), ch) = Cut(a[s \ {Max(s)}] \o <<ch>>)
          BY <4>2, CutAppendsChar
        <4> QED BY <1>2, <1>4, <2>2, <3>2, <4>1, <4>2, <4>3
      <3> QED BY <3>1, <3>2
    <2>4. Folds(g)
      BY <2>2, <2>3
    <2> QED BY <2>4
  <1>9. Folds(f)
    BY <1>8
  <1>10. FoldLeft(append_char, Cut(t), seq) = f[1 .. n]
    <2>1. FoldLeft(append_char, Cut(t), seq) =
            (CHOOSE iter : iter = [s \in SUBSET (DOMAIN seq) |->
               IF s = {} THEN Cut(t) ELSE append_char(iter[s \ {Max(s)}], seq[Max(s)])])[DOMAIN seq]
      BY DEF FoldLeft, MapThenFoldSet
    <2> QED BY <1>2, <2>1
  <1> HIDE DEF f
  <1>11. f[1 .. n] = Cut(p[n])
    <2>1. f[{}] = Cut(t)
      BY <1>9
    <2>2. ASSUME NEW s \in SUBSET (1 .. n), s # {}, NEW u \in Seq(Char), f[s \ {Max(s)}] = Cut(u)
          PROVE  f[s] = Cut(u \o w[Max(s)])
      <3>1. f[s] = append_char(f[s \ {Max(s)}], seq[Max(s)])
        BY <1>9, <2>2
      <3>2. Max(s) \in 1 .. n
        <4>1. PICK a : Joined(a, t, w, n)
          BY <1>4, JoinedExists
        <4> QED BY <2>2, <4>1 DEF Joined
      <3>3. append_char(Cut(u), ch) = Cut(u \o <<ch>>)
        BY CutAppendsChar
      <3> QED BY <1>2, <1>4, <2>2, <3>1, <3>2, <3>3
    <2>3. Steps(f, t, w, n)
      BY <1>4, <2>1, <2>2 DEF Steps
    <2> QED BY <1>7, <2>3, FoldEnds, Zenon
  <1>12. p[n] = t \o Repeat(n, ch)
    BY <1>5
  <1> QED BY <1>1, <1>10, <1>11, <1>12

-----------------------------------------------------------------------------
(* Numbers with padding and sign *)

\* The texts that vprintf writes of its own accord.
LEMMA OwnChars ==
  /\ "0" \in Char /\ " " \in Char /\ "-" \in Char /\ "." \in Char /\ "x" \in Char /\ "X" \in Char
  /\ <<"f", "a", "l", "s", "e">> \in Seq(Char) /\ <<"t", "r", "u", "e">> \in Seq(Char)
  <1>1. /\ "0" \in Own /\ " " \in Own /\ "-" \in Own /\ "." \in Own /\ "x" \in Own /\ "X" \in Own
        /\ "f" \in Own /\ "a" \in Own /\ "l" \in Own /\ "s" \in Own /\ "e" \in Own
        /\ "t" \in Own /\ "r" \in Own /\ "u" \in Own
    BY DEF Own
  <1>2. /\ "0" \in Char /\ " " \in Char /\ "-" \in Char /\ "." \in Char /\ "x" \in Char /\ "X" \in Char
        /\ "f" \in Char /\ "a" \in Char /\ "l" \in Char /\ "s" \in Char /\ "e" \in Char
        /\ "t" \in Char /\ "r" \in Char /\ "u" \in Char
    BY <1>1, FormatsAssumption
  <1>3. <<"f", "a", "l", "s", "e">> \in Seq(Char)
    <2>1. PICK f \in Char, a \in Char, l \in Char, s \in Char, e \in Char :
             f = "f" /\ a = "a" /\ l = "l" /\ s = "s" /\ e = "e"
      BY <1>2
    <2>2. <<f, a, l, s, e>> \in Seq(Char)
      OBVIOUS
    <2> QED BY <2>1, <2>2
  <1>4. <<"t", "r", "u", "e">> \in Seq(Char)
    <2>1. PICK t \in Char, r \in Char, u \in Char, e \in Char :
             t = "t" /\ r = "r" /\ u = "u" /\ e = "e"
      BY <1>2
    <2>2. <<t, r, u, e>> \in Seq(Char)
      OBVIOUS
    <2> QED BY <2>1, <2>2
  <1> QED BY <1>2, <1>3, <1>4

\* The padding is a text, empty if the number is wider than the field.
LEMMA RepeatType ==
  ASSUME NEW n \in Int, NEW ch \in Char
  PROVE  \E k \in Nat : Repeat(n, ch) = Repeat(k, ch) /\ Repeat(n, ch) \in Seq(Char)
  <1>1. CASE n \in Nat
    <2>1. Repeat(n, ch) \in [1 .. n -> Char]
      BY DEF Repeat
    <2>2. Repeat(n, ch) \in Seq(Char)
      BY <1>1, <2>1
    <2> QED BY <1>1, <2>2
  <1>2. CASE n \notin Nat
    <2>1. 1 .. n = {} /\ 1 .. 0 = {}
      BY <1>2
    <2>2. Repeat(n, ch) = Repeat(0, ch)
      BY <2>1 DEF Repeat
    <2>3. Repeat(0, ch) = <<>>
      BY DEF Repeat
    <2>4. <<>> \in Seq(Char)
      OBVIOUS
    <2> QED BY <2>2, <2>3, <2>4
  <1> QED BY <1>1, <1>2

\* A padded number is a text.
LEMMA FieldType ==
  ASSUME NEW num \in Seq(Char), NEW width \in Nat, NEW padding \in Char
  PROVE  Field(num, width, padding) \in Seq(Char)
  <1>1. width - Len(num) \in Int
    OBVIOUS
  <1>2. Repeat(width - Len(num), padding) \in Seq(Char)
    BY <1>1, RepeatType
  <1> QED BY <1>2, CharSeqs DEF Field

\* printf_num appends the padded numeral to a cut text.
LEMMA PrintsNumeral ==
  ASSUME NEW t \in Seq(Char), NEW hex \in Flags, NEW u \in Nat, u < Pow(Base(hex), 9),
         NEW padding \in Char, NEW width \in Nat
  PROVE  /\ Field(Numeral(u, Base(hex), DigitsOf(hex)), width, padding) \in Seq(Char)
         /\ printf_num(Cut(t), u, hex, padding, width)
              = Cut(t \o Field(Numeral(u, Base(hex), DigitsOf(hex)), width, padding))
  <1> DEFINE num == Numeral(u, Base(hex), DigitsOf(hex))
             n == width - Len(num)
  <1>1. num \in Seq(Char)
    BY NumeralType
  <1>2. NumString(u, hex) = num
    BY NumStringIs
  <1> HIDE DEF num
  <1>3. n \in Int
    BY <1>1
  <1>4. PICK k \in Nat : Repeat(n, padding) = Repeat(k, padding) /\ Repeat(n, padding) \in Seq(Char)
    BY <1>3, RepeatType
  <1>5. FoldLeft(append_char, Cut(t), Repeat(n, padding)) = Cut(t \o Repeat(n, padding))
    BY <1>4, PaddingFolds
  <1>6. printf_num(Cut(t), u, hex, padding, width)
          = append(FoldLeft(append_char, Cut(t), Repeat(n, padding)), num)
    BY <1>2 DEF printf_num, Repeat
  <1>7. t \o Repeat(n, padding) \in Seq(Char)
    BY <1>4, CharSeqs
  <1>8. append(Cut(t \o Repeat(n, padding)), num) = Cut((t \o Repeat(n, padding)) \o num)
    BY <1>1, <1>7, CutAppends
  <1>9. (t \o Repeat(n, padding)) \o num = t \o (Repeat(n, padding) \o num)
    BY <1>1, <1>4, CharsAssociate
  <1>10. Field(num, width, padding) = Repeat(n, padding) \o num
    BY DEF Field
  <1>11. Field(num, width, padding) \in Seq(Char)
    BY <1>1, FieldType
  <1>12. printf_num(Cut(t), u, hex, padding, width) = Cut(t \o Field(num, width, padding))
    BY <1>5, <1>6, <1>8, <1>9, <1>10
  <1> QED BY <1>1, <1>11, <1>12 DEF num

\* The text of a sign.
SignText(negative) == IF negative THEN <<"-">> ELSE <<>>

\* The sign, or nothing.
LEMMA SignAppends ==
  ASSUME NEW t \in Seq(Char), NEW negative
  PROVE  /\ SignText(negative) \in Seq(Char)
         /\ AppendSign(Cut(t), negative) = Cut(t \o SignText(negative))
  <1>1. CASE negative
    <2>1. append_char(Cut(t), "-") = Cut(t \o <<"-">>)
      BY OwnChars, CutAppendsChar
    <2>2. <<"-">> \in Seq(Char)
      <3>1. "-" \in Char
        BY OwnChars
      <3> QED BY <3>1
    <2> QED BY <1>1, <2>1, <2>2 DEF AppendSign, SignText
  <1>2. CASE ~negative
    <2>1. t \o <<>> = t
      BY ConcatEmptySeq
    <2>2. <<>> \in Seq(Char)
      OBVIOUS
    <2> QED BY <1>2, <2>1, <2>2 DEF AppendSign, SignText
  <1> QED BY <1>1, <1>2

\* The flags choose one of the three notations, zero one of the two paddings.
LEMMA HexType ==
  ASSUME NEW d
  PROVE  Hex(d) \in Flags /\ Padding(d) \in Char
  <1>1. Hex(d) \in Flags
    BY DEF Hex, Flags
  <1>2. Padding(d) \in Char
    BY OwnChars DEF Padding
  <1> QED BY <1>1, <1>2

\* A width is a number of its byte.
LEMMA WidthType ==
  ASSUME NEW d, d.width \in Nat
  PROVE  Width(d) \in Nat
  BY DEF Width, UInt8

\* The integers that are printed have at most nine digits.
LEMMA FewDigits ==
  ASSUME NEW hex \in Flags, NEW u \in Nat, u <= 65536
  PROVE  u \in Nat /\ u < Pow(Base(hex), 9)
  <1>1. Pow(10, 9) = 1000000000
    BY Z3 DEF Pow
  <1>2. Pow(16, 9) = 68719476736
    BY Z3 DEF Pow
  <1>3. Base(hex) = 10 \/ Base(hex) = 16
    BY DEF Base
  <1> QED BY <1>1, <1>2, <1>3

\* The text of a number with its sign.
SignedField(negative, u, hex, padding, width) ==
  SignText(negative) \o Field(Numeral(u, Base(hex), DigitsOf(hex)), width, padding)

\* A number with its sign.
LEMMA SignedNumber ==
  ASSUME NEW t \in Seq(Char), NEW negative, NEW hex \in Flags,
         NEW u \in Nat, u <= 65536, NEW padding \in Char, NEW width \in Nat
  PROVE  /\ SignedField(negative, u, hex, padding, width) \in Seq(Char)
         /\ printf_num(AppendSign(Cut(t), negative), u, hex, padding, width)
              = Cut(t \o SignedField(negative, u, hex, padding, width))
  <1>1. PICK sign \in Seq(Char) : /\ sign = SignText(negative)
                                  /\ AppendSign(Cut(t), negative) = Cut(t \o sign)
    BY SignAppends
  <1>2. t \o sign \in Seq(Char)
    BY CharSeqs
  <1>3. u \in Nat /\ u < Pow(Base(hex), 9)
    BY FewDigits
  <1>4. PICK field : field = Field(Numeral(u, Base(hex), DigitsOf(hex)), width, padding)
    OBVIOUS
  <1> DEFINE r == t \o sign
  <1>7. r \in Seq(Char)
    BY <1>2
  <1> HIDE DEF r
  <1>8. field \in Seq(Char) /\ printf_num(Cut(r), u, hex, padding, width) = Cut(r \o field)
    BY <1>3, <1>4, <1>7, PrintsNumeral
  <1>10. field \in Seq(Char)
    BY <1>8
  <1>5. r \o field = t \o (sign \o field)
    <2>1. t \o (sign \o field) = (t \o sign) \o field
      <3>1. Associate(t, sign, field)
        BY <1>10, TheyAssociate
      <3> QED BY <3>1 DEF Associate
    <2> QED BY <2>1 DEF r
  <1>6. sign \o field \in Seq(Char)
    BY <1>8, CharSeqs
  <1>9. AppendSign(Cut(t), negative) = Cut(r)
    BY <1>1 DEF r
  <1> QED BY <1>1, <1>4, <1>5, <1>6, <1>8, <1>9 DEF SignedField

-----------------------------------------------------------------------------
(* Integers and pointers *)

\* The sizes of the two integer types.
LEMMA PowersOf2 ==
  Pow(2, 8) = 256 /\ Pow(2, 8 - 1) = 128 /\ Pow(2, 16) = 65536 /\ Pow(2, 16 - 1) = 32768
  <1>1. Pow(2, 8) = 256
    BY Z3 DEF Pow
  <1>2. Pow(2, 8 - 1) = 128
    BY Z3 DEF Pow
  <1>3. Pow(2, 16) = 65536
    BY Z3 DEF Pow
  <1>4. Pow(2, 16 - 1) = 32768
    BY Z3 DEF Pow
  <1> QED BY <1>1, <1>2, <1>3, <1>4

\* The value that an integer directive prints, and its size.
ReadInteger(d, bits) == IF IsSigned(d) THEN Signed(d.arg, bits) ELSE Unsigned(d.arg, bits)
SizeOf(d, bits) == IF d.arg >= 0 THEN d.arg ELSE IF IsSigned(d) THEN -d.arg ELSE d.arg + Pow(2, bits)

\* The definitions by their powers.
LEMMA SignedByPowers ==
  ASSUME NEW n, NEW bits
  PROVE  Signed(n, bits) = IF n % Pow(2, bits) >= Pow(2, bits - 1)
                           THEN (n % Pow(2, bits)) - Pow(2, bits) ELSE n % Pow(2, bits)
  BY Zenon DEF Signed, Pow

\* The same, unsigned.
LEMMA UnsignedByPowers ==
  ASSUME NEW n, NEW bits
  PROVE  Unsigned(n, bits) = n % Pow(2, bits)
  BY Zenon DEF Unsigned, Pow

\* The same of what a caller may pass.
LEMMA PassedByPowers ==
  ASSUME NEW d, NEW bits
  PROVE  Passed(d, bits) = -Pow(2, bits - 1) ..
                             (IF IsSigned(d) THEN Pow(2, bits - 1) ELSE Pow(2, bits)) - 1
  BY Zenon DEF Passed, Pow

\* The same of the reference.
LEMMA TextByPowers ==
  ASSUME NEW d, NEW bits
  PROVE  IntegerText(d, bits)
           = Sign(d) \o Field(Numeral(SizeOf(d, bits), Base(Hex(d)), DigitsOf(Hex(d))),
                              Width(d), Padding(d))
  BY Zenon DEF IntegerText, SizeOf, Pow

\* The same of pointers and doubles.
LEMMA LongByPowers ==
  /\ Pointers = 0 .. Pow(2, LongBits) - 1
  /\ Doubles = -(8 * Pow(2, LongBits) - 1) .. 8 * Pow(2, LongBits) - 1
  BY Zenon DEF Pointers, Doubles, Pow

\* Reading an int modulo its size.
LEMMA Wraps ==
  ASSUME NEW n \in Int, NEW m \in {256, 65536}, -m <= n, n < m
  PROVE  n % m = IF n >= 0 THEN n ELSE n + m
  <1>1. CASE m = 256
    BY <1>1
  <1>2. CASE m = 65536
    BY <1>2
  <1> QED BY <1>1, <1>2

\* What is printed is the magnitude of the argument, at the least number too,
\* where -int64 wraps.
LEMMA IntegerValue ==
  ASSUME NEW d, NEW bits \in {8, 16}, d.arg \in Passed(d, bits)
  PROVE  /\ ReadInteger(d, bits) < 0 <=> IsSigned(d) /\ d.arg < 0
         /\ Magnitude(ReadInteger(d, bits)) \in Nat /\ Magnitude(ReadInteger(d, bits)) <= 65536
         /\ Magnitude(ReadInteger(d, bits)) = SizeOf(d, bits)
  <1>1. PICK m \in {256, 65536}, h \in {128, 32768} :
          m = Pow(2, bits) /\ h = Pow(2, bits - 1) /\ m = 2 * h
    <2>1. CASE bits = 8
      BY <2>1, PowersOf2
    <2>2. CASE bits = 16
      BY <2>2, PowersOf2
    <2> QED BY <2>1, <2>2
  <1>2. PICK a : a = d.arg
    OBVIOUS
  <1>3. a \in Int /\ -h <= a /\ a < m /\ (IsSigned(d) => a < h)
    <2>1. a \in -h .. (IF IsSigned(d) THEN h ELSE m) - 1
      BY <1>1, <1>2, PassedByPowers, SMTT(30)
    <2>2. h < m /\ h \in Int /\ m \in Int
      BY <1>1
    <2> QED BY <2>1, <2>2
  <1>4. a % m = IF a >= 0 THEN a ELSE a + m
    <2>1. -m <= a
      BY <1>1, <1>3
    <2> QED BY <1>3, <2>1, Wraps
  <1> DEFINE n == ReadInteger(d, bits)
  <1>5. CASE IsSigned(d)
    <2>1. n = IF a % m >= h THEN (a % m) - m ELSE a % m
      BY <1>1, <1>2, <1>5, SignedByPowers DEF ReadInteger
    <2> HIDE DEF n
    <2>2. n = a
      BY <1>1, <1>3, <1>4, <1>5, <2>1
    <2>3. CASE a >= 0
      <3>1. Magnitude(n) = a /\ SizeOf(d, bits) = a
        BY <1>2, <1>3, <2>2, <2>3 DEF Magnitude, SizeOf
      <3> QED BY <1>1, <1>2, <1>3, <1>5, <2>2, <2>3, <3>1 DEF n
    <2>4. CASE ~(a >= 0)
      <3>1. (-a) % 65536 = -a
        <4>1. -a \in Int /\ -65536 <= -a /\ -a < 65536 /\ -a >= 0
          BY <1>1, <1>3, <1>5, <2>4
        <4> QED BY <4>1, Wraps
      <3>2. Magnitude(n) = (-a) % 65536
        <4>1. n < 0
          BY <1>3, <2>2, <2>4
        <4>2. Magnitude(n) = Negated(a)
          BY <2>2, <4>1 DEF Magnitude
        <4>3. Negated(a) = (-a) % Pow(2, LongBits) /\ LongBits = 16
          BY UnsignedByPowers DEF Negated, LongBits
        <4> QED BY <4>2, <4>3, PowersOf2
      <3>3. SizeOf(d, bits) = -a
        BY <1>2, <1>5, <2>4 DEF SizeOf
      <3> QED BY <1>1, <1>2, <1>3, <1>5, <2>2, <2>4, <3>1, <3>2, <3>3 DEF n
    <2> QED BY <2>3, <2>4
  <1>6. CASE ~IsSigned(d)
    <2>1. n = a % m
      BY <1>1, <1>2, <1>6, UnsignedByPowers DEF ReadInteger
    <2> HIDE DEF n
    <2>2. n >= 0 /\ n \in Nat /\ n <= 65536 /\ n = IF a >= 0 THEN a ELSE a + m
      BY <1>1, <1>3, <1>4, <2>1, SMTT(30)
    <2>3. Magnitude(n) = n
      BY <2>2 DEF Magnitude
    <2>4. SizeOf(d, bits) = IF a >= 0 THEN a ELSE a + m
      BY <1>1, <1>2, <1>6 DEF SizeOf
    <2> QED BY <1>1, <1>2, <1>6, <2>2, <2>3, <2>4 DEF n
  <1> QED BY <1>5, <1>6

\* So %d and %l append the integer's text.
LEMMA IntegerIs ==
  ASSUME NEW t \in Seq(Char), NEW d, NEW bits \in {8, 16}, d.arg \in Passed(d, bits), d.width \in Nat
  PROVE  /\ IntegerText(d, bits) \in Seq(Char)
         /\ AppendInteger(Cut(t), d, bits) = Cut(t \o IntegerText(d, bits))
  <1> DEFINE n == ReadInteger(d, bits)
             v == SizeOf(d, bits)
  <1>1. /\ n < 0 <=> IsSigned(d) /\ d.arg < 0
        /\ Magnitude(n) \in Nat /\ Magnitude(n) <= 65536 /\ Magnitude(n) = v
    BY IntegerValue
  <1>2. AppendInteger(Cut(t), d, bits)
          = printf_num(AppendSign(Cut(t), n < 0), Magnitude(n), Hex(d), Padding(d), Width(d))
    BY DEF AppendInteger, ReadInteger
  <1>3. IntegerText(d, bits)
          = Sign(d) \o Field(Numeral(v, Base(Hex(d)), DigitsOf(Hex(d))), Width(d), Padding(d))
    BY TextByPowers
  <1> HIDE DEF n, v
  <1>4. Sign(d) = SignText(n < 0)
    BY <1>1 DEF Sign, SignText
  <1>5. Hex(d) \in Flags /\ Padding(d) \in Char /\ Width(d) \in Nat
    BY HexType, WidthType
  <1>6. IntegerText(d, bits) = SignedField(n < 0, v, Hex(d), Padding(d), Width(d))
    BY <1>3, <1>4 DEF SignedField
  <1>7. /\ SignedField(n < 0, v, Hex(d), Padding(d), Width(d)) \in Seq(Char)
        /\ printf_num(AppendSign(Cut(t), n < 0), v, Hex(d), Padding(d), Width(d))
             = Cut(t \o SignedField(n < 0, v, Hex(d), Padding(d), Width(d)))
    BY <1>1, <1>5, SignedNumber
  <1> QED BY <1>1, <1>2, <1>6, <1>7

\* The text of a pointer.
PointerText(d) == Field(Numeral(d.arg, 16, HEXArray), LongBits \div 4, "0")

\* %p appends the pointer's text.
LEMMA PointerIs ==
  ASSUME NEW t \in Seq(Char), NEW d, d.arg \in Pointers
  PROVE  PointerText(d) \in Seq(Char) /\ AppendPointer(Cut(t), d) = Cut(t \o PointerText(d))
  <1>1. PICK u : u = d.arg
    OBVIOUS
  <1>2. u \in Nat /\ u <= 65536
    <2>1. u \in 0 .. Pow(2, LongBits) - 1
      BY <1>1, LongByPowers, Zenon
    <2>2. Pow(2, LongBits) = 65536
      BY PowersOf2 DEF LongBits
    <2> QED BY <2>1, <2>2
  <1>3. "Upper" \in Flags
    BY DEF Flags
  <1>4. PICK hex \in Flags : hex = "Upper" /\ Base(hex) = 16 /\ DigitsOf(hex) = HEXArray
    BY <1>3 DEF Base, DigitsOf
  <1>5. u < Pow(Base(hex), 9)
    BY <1>2, FewDigits
  <1>6. PICK w \in Nat : w = LongBits \div 4
    BY DEF LongBits
  <1>7. PICK zero \in Char : zero = "0"
    BY OwnChars
  <1>8. /\ Field(Numeral(u, Base(hex), DigitsOf(hex)), w, zero) \in Seq(Char)
        /\ printf_num(Cut(t), u, hex, zero, w)
              = Cut(t \o Field(Numeral(u, Base(hex), DigitsOf(hex)), w, zero))
    BY <1>2, <1>5, PrintsNumeral
  <1> QED BY <1>1, <1>4, <1>6, <1>7, <1>8 DEF AppendPointer, PointerText

-----------------------------------------------------------------------------
(* Doubles *)

\* Dividing what is a multiple and a rest.
LEMMA QuotientIs ==
  ASSUME NEW m \in Nat \ {0}, NEW q \in Nat, NEW s \in Nat, s < m
  PROVE  (q * m + s) \div m = q /\ (q * m + s) % m = s
  <1>1. PICK u \in Nat : u = m * q + s
    <2>1. q * m + s \in Nat /\ q * m = m * q
      OBVIOUS
    <2> QED BY <2>1
  <1>2. u \div m = q /\ u % m = s
    BY <1>1
  <1>3. q * m + s = u
    <2>1. q * m = m * q
      OBVIOUS
    <2> QED BY <1>1, <2>1
  <1> QED BY <1>2, <1>3

\* The fraction r eighths rounded apart, and with its whole q.
RoundedPart(r, one) == (2 * r * one + 8) \div 16
RoundedAll(q, r, one) == (2 * (8 * q + r) * one + 8) \div 16

\* Whole and fraction apart, against the double scaled as a whole.
LEMMA Scales ==
  ASSUME NEW q \in Nat, NEW r \in 0 .. 7, NEW one \in Nat \ {0}
  PROVE  /\ RoundedPart(r, one) \in Nat /\ RoundedPart(r, one) <= one
         /\ RoundedPart(r, one) = one =>
               RoundedAll(q, r, one) \div one = q + 1 /\ RoundedAll(q, r, one) % one = 0
         /\ RoundedPart(r, one) # one =>
               /\ RoundedAll(q, r, one) \div one = q
               /\ RoundedAll(q, r, one) % one = RoundedPart(r, one)
  <1> DEFINE x == q * one
             y == r * one
             frac == RoundedPart(r, one)
             scaled == RoundedAll(q, r, one)
  <1>1. x \in Nat /\ y \in Nat /\ y <= 7 * one
    <2>1. r \in Nat /\ r <= 7
      OBVIOUS
    <2> QED BY <2>1
  <1>2. 2 * r * one = 2 * y /\ 2 * (8 * q + r) * one = 16 * x + 2 * y
    OBVIOUS
  <1>8. frac = (2 * y + 8) \div 16 /\ scaled = (16 * x + 2 * y + 8) \div 16
    BY <1>2 DEF RoundedPart, RoundedAll
  <1>3. (q + 1) * one + 0 = x + one
    OBVIOUS
  <1>4. q * one = x
    OBVIOUS
  <1> HIDE DEF x, y, frac, scaled
  <1>5. frac \in Nat /\ frac <= one /\ scaled = x + frac
    BY <1>1, <1>8
  <1>6. CASE frac = one
    <2>1. scaled = (q + 1) * one + 0
      BY <1>3, <1>5, <1>6
    <2>2. ((q + 1) * one + 0) \div one = q + 1 /\ ((q + 1) * one + 0) % one = 0
      <3>1. q + 1 \in Nat /\ 0 < one
        OBVIOUS
      <3> QED BY <3>1, QuotientIs
    <2>3. scaled \div one = q + 1 /\ scaled % one = 0
      BY <2>1, <2>2
    <2> QED BY <1>5, <1>6, <2>3 DEF frac, scaled
  <1>7. CASE frac # one
    <2>1. scaled = q * one + frac
      BY <1>4, <1>5
    <2>2. (q * one + frac) \div one = q /\ (q * one + frac) % one = frac
      <3>1. frac < one
        BY <1>5, <1>7
      <3> QED BY <1>5, <3>1, QuotientIs
    <2>3. scaled \div one = q /\ scaled % one = frac
      BY <2>1, <2>2
    <2> QED BY <1>5, <1>7, <2>3 DEF frac, scaled
  <1> QED BY <1>6, <1>7

\* A double's size, and the fraction and the whole that are printed of it.
FloatSize(d) == IF d.arg < 0 THEN -d.arg ELSE d.arg
FloatFrac(d) == (2 * (FloatSize(d) % 8) * Pow(10, UInt8(d.frac)) + 8) \div 16
FloatWhole(d) == FloatSize(d) \div 8 + (IF FloatFrac(d) = Pow(10, UInt8(d.frac)) THEN 1 ELSE 0)
FloatRest(d) == IF FloatFrac(d) = Pow(10, UInt8(d.frac)) THEN 0 ELSE FloatFrac(d)

\* AppendFloat by its parts.
LEMMA AppendFloatByPowers ==
  ASSUME NEW b, NEW d
  PROVE  AppendFloat(b, d)
           = printf_num(append_char(printf_num(AppendSign(b, d.arg < 0), FloatWhole(d), Hex(d),
                                               Padding(d), Width(d)), "."),
                        FloatRest(d), "No", "0", UInt8(d.frac))
  BY Zenon DEF AppendFloat, RoundedFrac, Carries, AllNines, FloatSize, FloatFrac, FloatWhole,
               FloatRest, Pow

\* The double scaled and rounded as a whole.
FloatScaled(d) == (2 * FloatSize(d) * Pow(10, d.frac) + 8) \div 16

\* The reference by its parts.
LEMMA FloatTextByPowers ==
  ASSUME NEW d
  PROVE  FloatText(d)
           = ((SignedField(d.arg < 0, FloatScaled(d) \div Pow(10, d.frac), Hex(d), Padding(d), Width(d))
               \o <<".">>)
              \o Field(Numeral(FloatScaled(d) % Pow(10, d.frac), 10, hexArray), d.frac, "0"))
  BY Zenon DEF FloatText, FloatScaled, FloatSize, SignedField, SignText, Pow

\* What WellFormed asks of a double.
PassedFloat(d) ==
  d.arg \in Doubles /\ d.frac \in 0 .. 9

\* The two halves that are printed are those of the scaled double.
LEMMA FloatParts ==
  ASSUME NEW d, PassedFloat(d)
  PROVE  /\ UInt8(d.frac) = d.frac
         /\ FloatScaled(d) \div Pow(10, d.frac) = FloatWhole(d)
         /\ FloatScaled(d) % Pow(10, d.frac) = FloatRest(d)
         /\ FloatWhole(d) \in Nat /\ FloatWhole(d) <= 65536
         /\ FloatRest(d) \in Nat /\ FloatRest(d) < Pow(10, 9)
  <1>1. UInt8(d.frac) = d.frac
    BY DEF UInt8, PassedFloat
  <1>2. PICK one \in Nat \ {0} : one = Pow(10, d.frac) /\ one <= Pow(10, 9) /\ Pow(10, 9) \in Nat
    BY PowersOf10 DEF PassedFloat
  <1>3. PICK m \in Nat : m = Pow(2, LongBits) /\ m <= 65536 /\ m > 0
    BY PowersOf2 DEF LongBits
  <1>4. PICK u \in Nat : u = FloatSize(d) /\ u < 8 * m
    <2>2. PICK a : a = d.arg
      OBVIOUS
    <2>3. a \in Int /\ -(8 * m - 1) <= a /\ a <= 8 * m - 1
      <3>1. Doubles = -(8 * m - 1) .. 8 * m - 1
        BY <1>3, LongByPowers
      <3>2. a \in Doubles
        BY <2>2 DEF PassedFloat
      <3> QED BY <3>1, <3>2
    <2>4. FloatSize(d) = IF a < 0 THEN -a ELSE a
      BY <2>2 DEF FloatSize
    <2>5. FloatSize(d) \in Nat /\ FloatSize(d) < 8 * m
      BY <2>3, <2>4
    <2> QED BY <2>5
  <1>14. PICK q \in Nat, r \in 0 .. 7 : q = u \div 8 /\ r = u % 8 /\ u = 8 * q + r /\ q < m
    <2>1. u \div 8 \in Nat /\ u % 8 \in 0 .. 7 /\ u = 8 * (u \div 8) + (u % 8)
      OBVIOUS
    <2>2. u \div 8 < m
      BY <1>4
    <2> QED BY <2>1, <2>2
  <1>5. FloatFrac(d) = RoundedPart(r, one)
    BY <1>1, <1>2, <1>4, <1>14 DEF FloatFrac, RoundedPart
  <1>6. FloatScaled(d) = RoundedAll(q, r, one)
    BY <1>2, <1>4, <1>14 DEF FloatScaled, RoundedAll
  <1>7. /\ FloatFrac(d) \in Nat /\ FloatFrac(d) <= one
        /\ FloatFrac(d) = one => FloatScaled(d) \div one = q + 1 /\ FloatScaled(d) % one = 0
        /\ FloatFrac(d) # one => FloatScaled(d) \div one = q /\ FloatScaled(d) % one = FloatFrac(d)
    <2>1. /\ RoundedPart(r, one) \in Nat /\ RoundedPart(r, one) <= one
          /\ RoundedPart(r, one) = one =>
                RoundedAll(q, r, one) \div one = q + 1 /\ RoundedAll(q, r, one) % one = 0
          /\ RoundedPart(r, one) # one =>
                /\ RoundedAll(q, r, one) \div one = q
                /\ RoundedAll(q, r, one) % one = RoundedPart(r, one)
      BY Scales
    <2> QED BY <1>5, <1>6, <2>1, Zenon
  <1>8. FloatWhole(d) = IF FloatFrac(d) = one THEN q + 1 ELSE q
    BY <1>1, <1>2, <1>4, <1>14 DEF FloatWhole
  <1>9. FloatRest(d) = IF FloatFrac(d) = one THEN 0 ELSE FloatFrac(d)
    BY <1>1, <1>2 DEF FloatRest
  <1>10. FloatWhole(d) \in Nat /\ FloatWhole(d) <= 65536
    BY <1>3, <1>14, <1>8
  <1>11. FloatRest(d) \in Nat /\ FloatRest(d) < Pow(10, 9)
    BY <1>2, <1>7, <1>9
  <1>12. /\ FloatScaled(d) \div one = FloatWhole(d)
         /\ FloatScaled(d) % one = FloatRest(d)
    BY <1>7, <1>8, <1>9
  <1> QED BY <1>1, <1>2, <1>10, <1>11, <1>12

\* So %f appends the double's text.
LEMMA FloatIs ==
  ASSUME NEW t \in Seq(Char), NEW d, PassedFloat(d), d.width \in Nat
  PROVE  /\ FloatText(d) \in Seq(Char)
         /\ AppendFloat(Cut(t), d) = Cut(t \o FloatText(d))
  <1>1. PICK u \in Nat : u = FloatWhole(d) /\ u <= 65536 /\ u = FloatScaled(d) \div Pow(10, d.frac)
    BY FloatParts
  <1>2. PICK f \in Nat : f = FloatRest(d) /\ f < Pow(10, 9) /\ f = FloatScaled(d) % Pow(10, d.frac)
    BY FloatParts
  <1>3. PICK w \in Nat : w = d.frac /\ w = UInt8(d.frac)
    BY FloatParts DEF PassedFloat
  <1>4. Hex(d) \in Flags /\ Padding(d) \in Char /\ Width(d) \in Nat
    BY HexType, WidthType
  <1> DEFINE s == SignedField(d.arg < 0, u, Hex(d), Padding(d), Width(d))
             r == t \o s
  <1>5. /\ s \in Seq(Char)
        /\ printf_num(AppendSign(Cut(t), d.arg < 0), u, Hex(d), Padding(d), Width(d)) = Cut(r)
    BY <1>1, <1>4, SignedNumber
  <1> HIDE DEF s
  <1>6. r \in Seq(Char)
    BY <1>5, CharSeqs
  <1> HIDE DEF r
  <1> DEFINE p == r \o <<".">>
  <1>7. p \in Seq(Char) /\ append_char(Cut(r), ".") = Cut(p)
    <2>1. PICK c \in Char : c = "."
      BY OwnChars
    <2>2. append_char(Cut(r), c) = Cut(r \o <<c>>)
      BY <1>6, CutAppendsChar
    <2>3. <<c>> \in Seq(Char)
      OBVIOUS
    <2>4. r \o <<c>> \in Seq(Char)
      BY <1>6, <2>3, CharSeqs
    <2> QED BY <2>1, <2>2, <2>4
  <1> HIDE DEF p
  <1> DEFINE e == Field(Numeral(f, 10, hexArray), w, "0")
  <1>8. e \in Seq(Char) /\ printf_num(Cut(p), f, "No", "0", w) = Cut(p \o e)
    <2>1. PICK hex \in Flags : hex = "No" /\ Base(hex) = 10 /\ DigitsOf(hex) = hexArray
      BY DEF Flags, Base, DigitsOf
    <2>2. PICK c \in Char : c = "0"
      BY OwnChars
    <2>3. f < Pow(Base(hex), 9)
      BY <1>2, <2>1
    <2>4. /\ Field(Numeral(f, Base(hex), DigitsOf(hex)), w, c) \in Seq(Char)
          /\ printf_num(Cut(p), f, hex, c, w)
               = Cut(p \o Field(Numeral(f, Base(hex), DigitsOf(hex)), w, c))
      <3>1. p \in Seq(Char)
        BY <1>7
      <3> QED BY <2>3, <3>1, PrintsNumeral, SMTT(30)
    <2> QED BY <2>1, <2>2, <2>4
  <1> HIDE DEF e
  <1>9. AppendFloat(Cut(t), d) = Cut(p \o e)
    <2>1. AppendFloat(Cut(t), d)
            = printf_num(append_char(printf_num(AppendSign(Cut(t), d.arg < 0), u, Hex(d),
                                                Padding(d), Width(d)), "."), f, "No", "0", w)
      <3>1. u = FloatWhole(d) /\ f = FloatRest(d) /\ w = UInt8(d.frac)
        BY <1>1, <1>2, <1>3
      <3> QED BY <3>1, AppendFloatByPowers, Zenon
    <2> QED BY <1>5, <1>7, <1>8, <2>1
  <1> DEFINE dot == <<".">>
  <1>10. dot \in Seq(Char)
    <2>1. PICK c \in Char : c = "."
      BY OwnChars
    <2>2. <<c>> \in Seq(Char)
      OBVIOUS
    <2> QED BY <2>1, <2>2
  <1>11. p = r \o dot
    BY DEF p
  <1> HIDE DEF dot
  <1> DEFINE sd == s \o dot
  <1>12. sd \in Seq(Char)
    BY <1>5, <1>10, CharSeqs
  <1>13. p = t \o sd
    BY <1>5, <1>10, <1>11, CharsAssociate DEF r
  <1> HIDE DEF sd
  <1>14. p \o e = t \o (sd \o e)
    BY <1>8, <1>12, <1>13, CharsAssociate
  <1>15. sd \o e \in Seq(Char)
    BY <1>8, <1>12, CharSeqs
  <1>16. FloatText(d) = sd \o e
    <2>1. /\ u = FloatScaled(d) \div Pow(10, d.frac) /\ f = FloatScaled(d) % Pow(10, d.frac)
          /\ w = d.frac
      BY <1>1, <1>2, <1>3
    <2> QED BY <2>1, FloatTextByPowers, Zenon DEF s, e, sd, dot
  <1> QED BY <1>9, <1>14, <1>15, <1>16

-----------------------------------------------------------------------------
(* The prefixes *)

\* The prefix of one flag, and the step of the fold that appends it.
PrefixOf(f) == IF f = "u" THEN <<>> ELSE <<"0", f>>
PrefixStep(c, f) == IF f = "u" THEN c ELSE append(c, <<"0", f>>)

\* One flag appends its prefix.
LEMMA PrefixStepIs ==
  ASSUME NEW t \in Seq(Char), NEW f \in {"u", "x", "X"}
  PROVE  PrefixOf(f) \in Seq(Char) /\ PrefixStep(Cut(t), f) = Cut(t \o PrefixOf(f))
  <1>1. CASE f = "u"
    <2>1. t \o <<>> = t
      BY ConcatEmptySeq
    <2>2. <<>> \in Seq(Char)
      OBVIOUS
    <2> QED BY <1>1, <2>1, <2>2 DEF PrefixOf, PrefixStep
  <1>2. CASE f # "u"
    <2>1. PICK z \in Char, x \in Char : z = "0" /\ x = f
      BY <1>2, OwnChars
    <2>2. <<z, x>> \in Seq(Char)
      OBVIOUS
    <2>3. append(Cut(t), <<z, x>>) = Cut(t \o <<z, x>>)
      BY <2>2, CutAppends
    <2>4. PrefixOf(f) = <<z, x>> /\ PrefixStep(Cut(t), f) = append(Cut(t), <<z, x>>)
      BY <1>2, <2>1 DEF PrefixOf, PrefixStep
    <2> QED BY <2>2, <2>3, <2>4
  <1> QED BY <1>1, <1>2

\* And all of them append PrefixText.
LEMMA PrefixFolds ==
  ASSUME NEW t \in Seq(Char), NEW d, NEW seq \in Seq({"u", "x", "X"}), seq = d.flags
  PROVE  PrefixText(d) \in Seq(Char) /\ AppendPrefixes(Cut(t), d) = Cut(t \o PrefixText(d))
  <1> DEFINE n == Len(seq)
  <1>1. n \in Nat /\ DOMAIN seq = 1 .. n /\ \A i \in 1 .. n : seq[i] \in {"u", "x", "X"}
    OBVIOUS
  <1>2. PICK w : w = [i \in DOMAIN seq |-> PrefixOf(seq[i])]
    OBVIOUS
  <1>3. /\ w \in [1 .. n -> Seq(Char)] /\ w \in Seq(Seq(Char)) /\ Len(w) = n
        /\ \A i \in 1 .. n : w[i] = PrefixOf(seq[i])
    <2>1. \A i \in 1 .. n : PrefixOf(seq[i]) \in Seq(Char)
      <3> TAKE i \in 1 .. n
      <3>1. seq[i] \in {"u", "x", "X"}
        BY <1>1
      <3> QED BY <3>1, PrefixStepIs
    <2> QED BY <1>1, <1>2, <2>1
  <1>4. PICK p : Builds(Char, p, t, w, n) /\ p[n] = t \o FlattenSeq(w)
    BY <1>3, FlattenAfter
  <1> DEFINE Folds(f) == f = [s \in SUBSET (1 .. n) |->
                                IF s = {} THEN Cut(t) ELSE PrefixStep(f[s \ {Max(s)}], seq[Max(s)])]
             f == CHOOSE g : Folds(g)
  <1>5. PICK a : Joined(a, t, w, n)
    BY <1>1, <1>3, JoinedExists
  <1>6. ASSUME NEW i \in 1 .. n, NEW u \in Seq(Char)
        PROVE  PrefixStep(Cut(u), seq[i]) = Cut(u \o w[i])
    <2>1. seq[i] \in {"u", "x", "X"}
      BY <1>1
    <2>2. PrefixStep(Cut(u), seq[i]) = Cut(u \o PrefixOf(seq[i]))
      BY <2>1, PrefixStepIs
    <2> QED BY <1>3, <2>2
  <1> HIDE DEF n
  <1>7. ASSUME NEW s \in SUBSET (1 .. n), s # {}
        PROVE  Max(s) \in 1 .. n
    BY <1>5, <1>7 DEF Joined
  <1>8. \E g : Folds(g)
    <2>1. PICK g : g = [s \in SUBSET (1 .. n) |-> Cut(a[s])]
      OBVIOUS
    <2>2. ASSUME NEW s \in SUBSET (1 .. n)
          PROVE  g[s] = IF s = {} THEN Cut(t) ELSE PrefixStep(g[s \ {Max(s)}], seq[Max(s)])
      <3>1. CASE s = {}
        BY <1>5, <2>1, <3>1 DEF Joined
      <3>2. CASE s # {}
        <4>1. Max(s) \in 1 .. n /\ a[s] = a[s \ {Max(s)}] \o w[Max(s)]
          BY <1>5, <1>7, <3>2 DEF Joined
        <4>2. s \ {Max(s)} \in SUBSET (1 .. n) /\ a[s \ {Max(s)}] \in Seq(Char)
          BY <1>5 DEF Joined
        <4>3. PrefixStep(Cut(a[s \ {Max(s)}]), seq[Max(s)]) = Cut(a[s \ {Max(s)}] \o w[Max(s)])
          BY <1>6, <4>1, <4>2
        <4> QED BY <2>1, <3>2, <4>1, <4>2, <4>3
      <3> QED BY <3>1, <3>2
    <2>3. Folds(g)
      BY <2>1, <2>2
    <2> QED BY <2>3
  <1>9. Folds(f)
    BY <1>8
  <1>10. AppendPrefixes(Cut(t), d) = f[1 .. n]
    <2>1. AppendPrefixes(Cut(t), d) =
            (CHOOSE iter : iter = [s \in SUBSET (DOMAIN seq) |->
               IF s = {} THEN Cut(t) ELSE PrefixStep(iter[s \ {Max(s)}], seq[Max(s)])])[DOMAIN seq]
      BY DEF AppendPrefixes, FoldLeft, MapThenFoldSet, PrefixStep
    <2> QED BY <1>1, <2>1
  <1> HIDE DEF f
  <1>11. f[1 .. n] = Cut(p[n])
    <2>1. f[{}] = Cut(t)
      BY <1>9
    <2>2. ASSUME NEW s \in SUBSET (1 .. n), s # {}, NEW u \in Seq(Char), f[s \ {Max(s)}] = Cut(u)
          PROVE  f[s] = Cut(u \o w[Max(s)])
      <3>1. f[s] = PrefixStep(f[s \ {Max(s)}], seq[Max(s)])
        BY <1>9, <2>2
      <3> QED BY <1>6, <1>7, <2>2, <3>1
    <2>3. Builds(Char, p, t, w, n) /\ w \in [1 .. n -> Seq(Char)]
      BY <1>3, <1>4
    <2> HIDE DEF Folds
    <2>4. Steps(f, t, w, n)
      BY <1>1, <2>1, <2>2, <2>3 DEF Steps
    <2>5. Builds(Char, p, t, w, n)
      BY <2>3
    <2> QED BY <2>4, <2>5, FoldEnds, Zenon
  <1>12. PrefixText(d) = FlattenSeq(w)
    BY <1>2 DEF PrefixText, PrefixOf
  <1>13. FlattenSeq(w) \in Seq(Char)
    BY <1>3, FlattenType
  <1> QED BY <1>4, <1>10, <1>11, <1>12, <1>13

-----------------------------------------------------------------------------
(* One directive *)

\* The integer conversions append their text.
LEMMA IntegerConverts ==
  ASSUME NEW t \in Seq(Char), NEW d, WellFormed(d), d.conv \in {"d", "l"}
  PROVE  Text(d) \in Seq(Char) /\ Convert(Cut(t), d) = Cut(t \o Text(d))
  <1>1. d.width \in Nat
    BY DEF WellFormed
  <1>2. CASE d.conv = "d"
    <2>1. d.arg \in Passed(d, 8)
      BY <1>2 DEF WellFormed, IntBits
    <2>2. Text(d) = IntegerText(d, 8) /\ Convert(Cut(t), d) = AppendInteger(Cut(t), d, 8)
      BY <1>2 DEF Text, Convert, IntBits
    <2> QED BY <1>1, <2>1, <2>2, IntegerIs
  <1>3. CASE d.conv = "l"
    <2>1. d.arg \in Passed(d, 16)
      BY <1>3 DEF WellFormed, LongBits
    <2>2. Text(d) = IntegerText(d, 16) /\ Convert(Cut(t), d) = AppendInteger(Cut(t), d, 16)
      BY <1>3 DEF Text, Convert, LongBits
    <2> QED BY <1>1, <2>1, <2>2, IntegerIs
  <1> QED BY <1>2, <1>3

\* And so do the others.
LEMMA OthersConvert ==
  ASSUME NEW t \in Seq(Char), NEW d, WellFormed(d), d.conv \notin {"text", "d", "l"}
  PROVE  Text(d) \in Seq(Char) /\ Convert(Cut(t), d) = Cut(t \o Text(d))
  <1>1. CASE d.conv = "b"
    <2>1. PICK word \in Seq(Char) : word = IF d.arg = 0 THEN <<"f", "a", "l", "s", "e">>
                                           ELSE <<"t", "r", "u", "e">>
      BY OwnChars
    <2>2. Text(d) = word /\ Convert(Cut(t), d) = append(Cut(t), word)
      BY <1>1, <2>1 DEF Text, Convert, AppendBool
    <2> QED BY <2>2, CutAppends
  <1>2. CASE d.conv = "c"
    <2>1. d.arg \in Char
      BY <1>2 DEF WellFormed
    <2>2. Text(d) = <<d.arg>> /\ Convert(Cut(t), d) = append_char(Cut(t), d.arg)
      BY <1>2 DEF Text, Convert
    <2> QED BY <2>1, <2>2, CutAppendsChar
  <1>3. CASE d.conv = "f"
    <2>1. PassedFloat(d) /\ d.width \in Nat
      BY <1>3 DEF WellFormed, PassedFloat, MaxFrac
    <2>2. Text(d) = FloatText(d) /\ Convert(Cut(t), d) = AppendFloat(Cut(t), d)
      BY <1>3 DEF Text, Convert
    <2> QED BY <2>1, <2>2, FloatIs
  <1>4. CASE d.conv = "p"
    <2>1. d.arg \in Pointers
      BY <1>4 DEF WellFormed
    <2>2. Text(d) = PointerText(d) /\ Convert(Cut(t), d) = AppendPointer(Cut(t), d)
      BY <1>4 DEF Text, Convert, PointerText
    <2> QED BY <2>1, <2>2, PointerIs
  <1>5. CASE d.conv = "s"
    <2>1. d.arg \in Seq(Char)
      BY <1>5 DEF WellFormed
    <2>2. Text(d) = d.arg /\ Convert(Cut(t), d) = append(Cut(t), d.arg)
      BY <1>5 DEF Text, Convert
    <2> QED BY <2>1, <2>2, CutAppends
  <1>6. CASE d.conv \notin {"b", "c", "f", "p", "s"}
    <2>1. d.conv \in Char
      BY <1>6 DEF WellFormed
    <2>2. Text(d) = <<d.conv>> /\ Convert(Cut(t), d) = append_char(Cut(t), d.conv)
      BY <1>6 DEF Text, Convert
    <2> QED BY <2>1, <2>2, CutAppendsChar
  <1> QED BY <1>1, <1>2, <1>3, <1>4, <1>5, <1>6

\* What a directive writes, cut off or not.
Written(d) == PrefixText(d) \o Text(d)

\* A directive appends what it writes, or finds the buffer full.
LEMMA DirectiveIs ==
  ASSUME NEW t \in Seq(Char), NEW d, WellFormed(d)
  PROVE  Written(d) \in Seq(Char) /\ Directive(Cut(t), d) = Cut(t \o Written(d))
  <1>1. PICK fs \in Seq({"u", "x", "X"}) : fs = d.flags
    BY DEF WellFormed
  <1>2. ASSUME NEW v \in Seq(Char)
        PROVE  PrefixText(d) \in Seq(Char) /\ AppendPrefixes(Cut(v), d) = Cut(v \o PrefixText(d))
    BY <1>1, PrefixFolds
  <1>3. PICK p \in Seq(Char) : p = PrefixText(d) /\ AppendPrefixes(Cut(t), d) = Cut(t \o p)
    BY <1>2
  <1>4. CASE d.conv = "text"
    <2>1. d.flags = <<>> /\ d.arg \in Char
      BY <1>4 DEF WellFormed
    <2>2. p = <<>>
      BY <1>3, <2>1 DEF PrefixText, FlattenSeq
    <2>3. PICK c \in Char : c = d.arg
      BY <2>1
    <2>4. Text(d) = <<c>>
      BY <1>4, <2>3 DEF Text
    <2>5. <<c>> \in Seq(Char)
      OBVIOUS
    <2>6. <<>> \o <<c>> = <<c>>
      BY <2>5, ConcatEmptySeq
    <2>7. Written(d) = <<c>>
      BY <1>3, <2>2, <2>4, <2>6 DEF Written
    <2>8. CASE available(Cut(t))
      <3>1. Directive(Cut(t), d) = append_char(Cut(t), c)
        BY <1>4, <2>3, <2>8 DEF Directive
      <3> QED BY <2>5, <2>7, <3>1, CutAppendsChar
    <2>9. CASE ~available(Cut(t))
      <3>1. Directive(Cut(t), d) = Cut(t)
        BY <2>9 DEF Directive
      <3> QED BY <2>5, <2>7, <2>9, <3>1, CutFull
    <2> QED BY <2>8, <2>9
  <1>5. CASE d.conv # "text"
    <2> DEFINE r == t \o p
    <2>1. r \in Seq(Char)
      BY CharSeqs
    <2> HIDE DEF r
    <2>2. Text(d) \in Seq(Char) /\ Convert(Cut(r), d) = Cut(r \o Text(d))
      BY <1>5, <2>1, IntegerConverts, OthersConvert
    <2>3. PICK e \in Seq(Char) : e = Text(d) /\ Convert(Cut(r), d) = Cut(r \o e)
      BY <2>2
    <2>4. r \o e = t \o (p \o e)
      BY CharsAssociate DEF r
    <2>5. Written(d) = p \o e /\ Written(d) \in Seq(Char)
      <3>1. p \o e \in Seq(Char)
        BY CharSeqs
      <3> QED BY <1>3, <2>3, <3>1 DEF Written
    <2>6. CASE available(Cut(t))
      <3>1. Directive(Cut(t), d) = Convert(AppendPrefixes(Cut(t), d), d)
        BY <1>5, <2>6 DEF Directive
      <3>2. Directive(Cut(t), d) = Cut(r \o e)
        BY <1>3, <2>3, <3>1 DEF r
      <3> QED BY <2>4, <2>5, <3>2
    <2>7. CASE ~available(Cut(t))
      <3>1. Directive(Cut(t), d) = Cut(t)
        BY <2>7 DEF Directive
      <3> QED BY <2>5, <2>7, <3>1, CutFull
    <2> QED BY <2>6, <2>7
  <1> QED BY <1>4, <1>5

-----------------------------------------------------------------------------
(* The directives of a format *)

\* A format: the directives one by one.
LEMMA DirectiveFolds ==
  ASSUME NEW t \in Seq(Char), NEW D, \A d \in D : WellFormed(d), NEW seq \in Seq(D)
  PROVE  /\ [i \in DOMAIN seq |-> Written(seq[i])] \in Seq(Seq(Char))
         /\ FoldLeft(Directive, Cut(t), seq)
              = Cut(t \o FlattenSeq([i \in DOMAIN seq |-> Written(seq[i])]))
  <1> DEFINE n == Len(seq)
  <1>1. n \in Nat /\ DOMAIN seq = 1 .. n /\ \A i \in 1 .. n : WellFormed(seq[i])
    OBVIOUS
  <1>2. PICK w : w = [i \in DOMAIN seq |-> Written(seq[i])]
    OBVIOUS
  <1>3. /\ w \in [1 .. n -> Seq(Char)] /\ w \in Seq(Seq(Char)) /\ Len(w) = n
        /\ \A i \in 1 .. n : w[i] = Written(seq[i])
    <2>1. \A i \in 1 .. n : Written(seq[i]) \in Seq(Char)
      <3> TAKE i \in 1 .. n
      <3>1. WellFormed(seq[i])
        BY <1>1
      <3> QED BY <3>1, DirectiveIs
    <2> QED BY <1>1, <1>2, <2>1
  <1>4. PICK p : Builds(Char, p, t, w, n) /\ p[n] = t \o FlattenSeq(w)
    BY <1>3, FlattenAfter
  <1> DEFINE Folds(f) == f = [s \in SUBSET (1 .. n) |->
                                IF s = {} THEN Cut(t) ELSE Directive(f[s \ {Max(s)}], seq[Max(s)])]
             f == CHOOSE g : Folds(g)
  <1>5. PICK a : Joined(a, t, w, n)
    BY <1>1, <1>3, JoinedExists
  <1>6. ASSUME NEW i \in 1 .. n, NEW u \in Seq(Char)
        PROVE  Directive(Cut(u), seq[i]) = Cut(u \o w[i])
    <2>1. WellFormed(seq[i])
      BY <1>1
    <2>2. Directive(Cut(u), seq[i]) = Cut(u \o Written(seq[i]))
      BY <2>1, DirectiveIs
    <2> QED BY <1>3, <2>2
  <1> HIDE DEF n
  <1>7. ASSUME NEW s \in SUBSET (1 .. n), s # {}
        PROVE  Max(s) \in 1 .. n
    BY <1>5, <1>7 DEF Joined
  <1>8. \E g : Folds(g)
    <2>1. PICK g : g = [s \in SUBSET (1 .. n) |-> Cut(a[s])]
      OBVIOUS
    <2>2. ASSUME NEW s \in SUBSET (1 .. n)
          PROVE  g[s] = IF s = {} THEN Cut(t) ELSE Directive(g[s \ {Max(s)}], seq[Max(s)])
      <3>1. CASE s = {}
        BY <1>5, <2>1, <3>1 DEF Joined
      <3>2. CASE s # {}
        <4>1. Max(s) \in 1 .. n /\ a[s] = a[s \ {Max(s)}] \o w[Max(s)]
          BY <1>5, <1>7, <3>2 DEF Joined
        <4>2. s \ {Max(s)} \in SUBSET (1 .. n) /\ a[s \ {Max(s)}] \in Seq(Char)
          BY <1>5 DEF Joined
        <4>3. Directive(Cut(a[s \ {Max(s)}]), seq[Max(s)]) = Cut(a[s \ {Max(s)}] \o w[Max(s)])
          BY <1>6, <4>1, <4>2
        <4> QED BY <2>1, <3>2, <4>1, <4>2, <4>3
      <3> QED BY <3>1, <3>2
    <2>3. Folds(g)
      BY <2>1, <2>2
    <2> QED BY <2>3
  <1>9. Folds(f)
    BY <1>8
  <1>10. FoldLeft(Directive, Cut(t), seq) = f[1 .. n]
    <2>1. FoldLeft(Directive, Cut(t), seq) =
            (CHOOSE iter : iter = [s \in SUBSET (DOMAIN seq) |->
               IF s = {} THEN Cut(t) ELSE Directive(iter[s \ {Max(s)}], seq[Max(s)])])[DOMAIN seq]
      BY DEF FoldLeft, MapThenFoldSet
    <2> QED BY <1>1, <2>1
  <1> HIDE DEF f
  <1>11. f[1 .. n] = Cut(p[n])
    <2>1. f[{}] = Cut(t)
      BY <1>9
    <2>2. ASSUME NEW s \in SUBSET (1 .. n), s # {}, NEW u \in Seq(Char), f[s \ {Max(s)}] = Cut(u)
          PROVE  f[s] = Cut(u \o w[Max(s)])
      <3>1. f[s] = Directive(f[s \ {Max(s)}], seq[Max(s)])
        BY <1>9, <2>2
      <3> QED BY <1>6, <1>7, <2>2, <3>1
    <2>3. Builds(Char, p, t, w, n) /\ w \in [1 .. n -> Seq(Char)]
      BY <1>3, <1>4
    <2> HIDE DEF Folds
    <2>4. Steps(f, t, w, n)
      BY <1>1, <2>1, <2>2, <2>3 DEF Steps
    <2>5. Builds(Char, p, t, w, n)
      BY <2>3
    <2> QED BY <2>4, <2>5, FoldEnds, Zenon
  <1> QED BY <1>2, <1>3, <1>4, <1>10, <1>11

-----------------------------------------------------------------------------
(* The calls *)

\* What the directives ds write.
AllWritten(ds) == FlattenSeq([i \in DOMAIN ds |-> Written(ds[i])])

\* The directives of the formats.
Directives == UNION {Range(fmt) : fmt \in Formats}

\* The directives of the formats are well formed.
LEMMA DirectivesAre ==
  /\ \A d \in Directives : WellFormed(d)
  /\ Formats \subseteq Seq(Directives)
  <1>1. ASSUME NEW d \in Directives PROVE WellFormed(d)
    BY FormatsAssumption DEF Directives
  <1>2. ASSUME NEW fmt \in Formats PROVE fmt \in Seq(Directives)
    <2>1. Range(fmt) \subseteq Directives
      BY DEF Directives
    <2>2. fmt \in Seq(Range(fmt))
      BY FormatsAssumption
    <2>3. PICK R : R = Range(fmt)
      OBVIOUS
    <2>4. Len(fmt) \in Nat /\ fmt \in [1 .. Len(fmt) -> R]
      BY <2>2, <2>3
    <2>5. fmt \in [1 .. Len(fmt) -> Directives]
      BY <2>1, <2>3, <2>4
    <2> QED BY <2>4, <2>5
  <1> QED BY <1>1, <1>2

\* The reference text is what the directives asked for write.
LEMMA RenderedIs == Rendered = AllWritten(FlattenSeq(asked))
  BY DEF Rendered, AllWritten, Written

\* A call over a cut text appends what its directives write.
LEMMA WritesAll ==
  ASSUME NEW t \in Seq(Char), NEW ds \in Seq(Directives)
  PROVE  /\ [i \in DOMAIN ds |-> Written(ds[i])] \in Seq(Seq(Char)) /\ AllWritten(ds) \in Seq(Char)
         /\ FoldLeft(Directive, Cut(t), ds) = Cut(t \o AllWritten(ds))
  <1>1. /\ [i \in DOMAIN ds |-> Written(ds[i])] \in Seq(Seq(Char))
        /\ FoldLeft(Directive, Cut(t), ds) = Cut(t \o FlattenSeq([i \in DOMAIN ds |-> Written(ds[i])]))
    BY DirectivesAre, DirectiveFolds
  <1>2. FlattenSeq([i \in DOMAIN ds |-> Written(ds[i])]) \in Seq(Char)
    BY <1>1, FlattenType
  <1> QED BY <1>1, <1>2 DEF AllWritten

\* What two formats write, one after the other.
LEMMA WrittenConcat ==
  ASSUME NEW ds \in Seq(Directives), NEW es \in Seq(Directives)
  PROVE  AllWritten(ds \o es) = AllWritten(ds) \o AllWritten(es)
  <1> DEFINE v == [i \in DOMAIN ds |-> Written(ds[i])]
             w == [i \in DOMAIN es |-> Written(es[i])]
             cs == ds \o es
             u == [i \in DOMAIN cs |-> Written(cs[i])]
  <1>1. <<>> \in Seq(Char)
    OBVIOUS
  <1>2. v \in Seq(Seq(Char)) /\ w \in Seq(Seq(Char))
    BY <1>1, WritesAll
  <1>3. FlattenSeq(v \o w) = FlattenSeq(v) \o FlattenSeq(w)
    <2> HIDE DEF v, w
    <2> QED BY <1>2, FlattenConcat
  <1>4. cs \in Seq(Directives) /\ Len(cs) = Len(ds) + Len(es)
        /\ \A i \in 1 .. Len(ds) + Len(es) : cs[i] = IF i <= Len(ds) THEN ds[i] ELSE es[i - Len(ds)]
    BY ConcatProperties
  <1> HIDE DEF cs
  <1>5. u \in Seq(Seq(Char))
    BY <1>1, <1>4, WritesAll
  <1>6. /\ Len(v) = Len(ds) /\ Len(w) = Len(es) /\ Len(u) = Len(ds) + Len(es)
        /\ Len(ds) \in Nat /\ Len(es) \in Nat
    BY <1>4
  <1>7. /\ v \o w \in Seq(Seq(Char)) /\ Len(v \o w) = Len(ds) + Len(es)
        /\ \A i \in 1 .. Len(ds) + Len(es) : (v \o w)[i] = IF i <= Len(ds) THEN v[i] ELSE w[i - Len(ds)]
    <2> HIDE DEF v, w
    <2>1. PICK P : P = Seq(Char)
      OBVIOUS
    <2>2. v \in Seq(P) /\ w \in Seq(P)
      BY <1>2, <2>1
    <2>3. /\ v \o w \in Seq(P) /\ Len(v \o w) = Len(v) + Len(w)
          /\ \A i \in 1 .. Len(v) + Len(w) : (v \o w)[i] = IF i <= Len(v) THEN v[i] ELSE w[i - Len(v)]
      BY <2>2, ConcatProperties
    <2> QED BY <1>6, <2>1, <2>3
  <1>8. ASSUME NEW i \in 1 .. Len(ds) + Len(es)
        PROVE  u[i] = (v \o w)[i]
    <2>1. u[i] = Written(cs[i])
      BY <1>4
    <2>2. CASE i <= Len(ds)
      <3>1. i \in DOMAIN ds /\ cs[i] = ds[i] /\ (v \o w)[i] = v[i]
        BY <1>4, <1>6, <1>7, <2>2
      <3>2. v[i] = Written(ds[i])
        BY <3>1
      <3> QED BY <2>1, <3>1, <3>2
    <2>3. CASE ~(i <= Len(ds))
      <3>1. i - Len(ds) \in DOMAIN es
        BY <1>6, <2>3
      <3>2. cs[i] = es[i - Len(ds)]
        BY <1>4, <2>3
      <3>3. (v \o w)[i] = w[i - Len(ds)]
        <4> HIDE DEF v, w
        <4> QED BY <1>7, <2>3
      <3>4. w[i - Len(ds)] = Written(es[i - Len(ds)])
        BY <3>1
      <3> QED BY <2>1, <3>2, <3>3, <3>4
    <2> QED BY <2>2, <2>3
  <1>9. u = v \o w
    <2> HIDE DEF u, v, w
    <2> QED BY <1>5, <1>6, <1>7, <1>8, SeqEqual
  <1> QED BY <1>3, <1>9 DEF AllWritten, cs

\* The inductive invariant: the calls were of formats, and the text is theirs.
IInv == asked \in Seq(Formats) /\ TextAsAsked

\* What was asked for is a sequence of directives, its text a text.
LEMMA RenderedType ==
  ASSUME asked \in Seq(Formats)
  PROVE  FlattenSeq(asked) \in Seq(Directives) /\ Rendered \in Seq(Char)
  <1>1. asked \in Seq(Seq(Directives))
    <2>1. Len(asked) \in Nat /\ asked \in [1 .. Len(asked) -> Formats]
      OBVIOUS
    <2>2. asked \in [1 .. Len(asked) -> Seq(Directives)]
      BY <2>1, DirectivesAre
    <2> QED BY <2>1, <2>2
  <1>2. FlattenSeq(asked) \in Seq(Directives)
    BY <1>1, FlattenType
  <1>3. <<>> \in Seq(Char)
    OBVIOUS
  <1> QED BY <1>2, <1>3, WritesAll, RenderedIs

\* An empty LogPrint has been asked nothing.
LEMMA InitText == Init => IInv
  <1> SUFFICES ASSUME Init PROVE IInv
    OBVIOUS
  <1>1. asked = <<>> /\ m_buffer = <<>>
    BY DEF Init
  <1>2. asked \in Seq(Formats)
    BY <1>1
  <1>3. FlattenSeq(asked) = <<>>
    BY <1>1 DEF FlattenSeq
  <1>4. [i \in DOMAIN <<>> |-> Written((<<>>)[i])] = <<>>
    OBVIOUS
  <1>5. Rendered = <<>>
    <2>1. FlattenSeq(<<>>) = <<>>
      BY DEF FlattenSeq
    <2> QED BY <1>3, <1>4, <2>1, RenderedIs DEF AllWritten
  <1>6. Cut(<<>>) = <<>>
    <2>1. PICK e \in Seq(Char) : e = <<>> /\ Len(e) = 0
      <3>1. <<>> \in Seq(Char)
        OBVIOUS
      <3>2. Len(<<>>) = 0
        OBVIOUS
      <3> QED BY <3>1, <3>2, Zenon
    <2>2. Cut(e) \in Seq(Char) /\ Len(Cut(e)) = IF 0 < End THEN 0 ELSE End
      BY <2>1, CutIs
    <2>3. Len(Cut(e)) = 0
      BY <2>2, CapacityAssumption DEF End
    <2> QED BY <2>1, <2>2, <2>3
  <1> QED BY <1>1, <1>2, <1>5, <1>6 DEF IInv, TextAsAsked, Cut

\* A call keeps the text as it was asked, because it appends what its format
\* writes to the buffer and to the reference alike.
LEMMA StepText == IInv /\ [Next]_vars => IInv'
  <1> SUFFICES ASSUME IInv, [Next]_vars PROVE IInv'
    OBVIOUS
  <1>1. CASE UNCHANGED vars
    <2>1. asked' = asked /\ m_buffer' = m_buffer
      BY <1>1 DEF vars
    <2>2. Rendered' = Rendered
      BY <2>1 DEF Rendered
    <2> QED BY <2>1, <2>2 DEF IInv, TextAsAsked
  <1>2. CASE Next
    <2>1. PICK fmt \in Formats : vprintf(fmt)
      BY <1>2 DEF Next
    <2>2. /\ asked' = Append(asked, fmt) /\ m_buffer' = FoldLeft(Directive, m_buffer, fmt)
          /\ asked \in Seq(Formats) /\ m_buffer = Cut(Rendered)
      BY <2>1 DEF vprintf, IInv, TextAsAsked, Cut
    <2>3. asked' \in Seq(Formats)
      BY <2>2
    <2>4. fmt \in Seq(Directives) /\ asked \in Seq(Seq(Directives))
      <3>1. Len(asked) \in Nat /\ asked \in [1 .. Len(asked) -> Formats]
        BY <2>2
      <3>2. asked \in [1 .. Len(asked) -> Seq(Directives)]
        BY <3>1, DirectivesAre
      <3> QED BY <3>1, <3>2, DirectivesAre
    <2>5. PICK ds \in Seq(Directives) : ds = FlattenSeq(asked)
      BY <2>2, RenderedType
    <2>6. FlattenSeq(asked') = ds \o fmt
      BY <2>2, <2>4, <2>5, FlattenAppend
    <2>7. Rendered' = AllWritten(FlattenSeq(asked'))
      BY DEF Rendered, AllWritten, Written
    <2>8. AllWritten(ds \o fmt) = AllWritten(ds) \o AllWritten(fmt)
      BY <2>4, WrittenConcat
    <2>9. Rendered = AllWritten(ds) /\ Rendered \in Seq(Char)
      BY <2>2, <2>5, RenderedType, RenderedIs
    <2>10. m_buffer' = Cut(Rendered \o AllWritten(fmt))
      BY <2>2, <2>4, <2>9, WritesAll
    <2>11. Rendered' = Rendered \o AllWritten(fmt)
      BY <2>6, <2>7, <2>8, <2>9
    <2>12. m_buffer' = Cut(Rendered')
      BY <2>10, <2>11
    <2> QED BY <2>3, <2>12 DEF IInv, TextAsAsked, Cut
  <1> QED BY <1>1, <1>2

\* However the pieces of the calls fall on the end of the array, LogPrint
\* holds the text its calls asked for, cut off at the end of its LogBuffer.
THEOREM TextIsAsAsked == Spec => []TextAsAsked
  <1>1. IInv => TextAsAsked
    BY DEF IInv
  <1> QED BY <1>1, InitText, StepText, PTL DEF Spec
=============================================================================
