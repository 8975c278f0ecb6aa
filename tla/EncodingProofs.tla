--------------------------- MODULE EncodingProofs ---------------------------
(***************************************************************************)
(* Lemmas about encode(), for every value: what it writes of a number, of  *)
(* a string and of a container, in which order it writes the keys of a     *)
(* dict, and where the parts of a value stand in its encoding.             *)
(***************************************************************************)
EXTENDS BencodeParser, LibraryProofs

-----------------------------------------------------------------------------
(* Numbers in a text *)

LEMMA DigitValueType ==
  ASSUME NEW c, IsDigit(c)
  PROVE  DigitValue(c) \in 0 .. 9
  BY DEF IsDigit, DigitValue

\* f[i] is the value of the first i digits, up to n of them.
Adds(f, digits, n) ==
  f = [i \in 0 .. n |-> IF i = 0 THEN 0 ELSE 10 * f[i - 1] + DigitValue(digits[i])]

LEMMA AddsAt ==
  ASSUME NEW f, NEW digits, NEW n, Adds(f, digits, n), NEW i \in 0 .. n
  PROVE  f[i] = IF i = 0 THEN 0 ELSE 10 * f[i - 1] + DigitValue(digits[i])
  <1> DEFINE g == [j \in 0 .. n |-> IF j = 0 THEN 0 ELSE 10 * f[j - 1] + DigitValue(digits[j])]
  <1>1. f = g
    BY DEF Adds
  <1>2. g[i] = IF i = 0 THEN 0 ELSE 10 * f[i - 1] + DigitValue(digits[i])
    BY Zenon
  <1>3. QED
    BY <1>1, <1>2, Zenon

LEMMA AddsNext ==
  ASSUME NEW f, NEW digits, NEW n \in Nat, Adds(f, digits, n)
  PROVE  \E h : Adds(h, digits, n + 1)
  <1> DEFINE step(g, i) == IF i = 0 THEN 0 ELSE 10 * g[i - 1] + DigitValue(digits[i])
             h == [i \in 0 .. n + 1 |-> step(f, i)]
  <1>1. ASSUME NEW i \in 0 .. n PROVE h[i] = f[i]
    <2>1. i \in 0 .. n + 1
      OBVIOUS
    <2>2. h[i] = step(f, i)
      BY <2>1, Zenon
    <2>3. f[i] = step(f, i)
      BY AddsAt
    <2>4. QED
      BY <2>2, <2>3, Zenon
  <1>2. ASSUME NEW i \in 0 .. n + 1 PROVE step(h, i) = step(f, i)
    <2>1. CASE i = 0
      BY <2>1
    <2>2. CASE i # 0
      <3>1. i - 1 \in 0 .. n
        BY <2>2
      <3>2. h[i - 1] = f[i - 1]
        BY <1>1, <3>1
      <3>3. QED
        BY <3>2
    <2>3. QED
      BY <2>1, <2>2
  <1>3. h = [i \in 0 .. n + 1 |-> step(h, i)]
    <2> HIDE DEF step
    <2> QED
      BY <1>2
  <1>4. QED
    BY <1>3 DEF Adds

\* The recursive function in Number exists, and computes what it says.
LEMMA AddsExists ==
  ASSUME NEW digits, NEW n \in Nat
  PROVE  \E f : Adds(f, digits, n)
  <1> DEFINE Missing == {k \in Nat : ~ \E f : Adds(f, digits, k)}
  <1>1. 0 \notin Missing
    <2> DEFINE f == [i \in 0 .. 0 |-> 0]
    <2>1. f = [i \in 0 .. 0 |-> IF i = 0 THEN 0 ELSE 10 * f[i - 1] + DigitValue(digits[i])]
      OBVIOUS
    <2>2. QED
      BY <2>1 DEF Adds
  <1>2. ASSUME NEW k \in Nat, k \notin Missing
        PROVE  k + 1 \notin Missing
    BY <1>2, AddsNext
  <1>3. Missing = {}
    <2> SUFFICES ASSUME Missing # {} PROVE FALSE
      OBVIOUS
    <2>1. PICK k \in Missing : \A m \in Missing : k <= m
      <3> Missing \in SUBSET Nat
        OBVIOUS
      <3> HIDE DEF Missing
      <3> QED
        BY LeastNatural
    <2>2. k \in Nat /\ k # 0
      BY <1>1
    <2>3. k - 1 \in Nat /\ k - 1 \notin Missing
      BY <2>1, <2>2
    <2>4. k - 1 + 1 \notin Missing
      BY <1>2, <2>3
    <2>5. QED
      BY <2>2, <2>4
  <1>4. QED
    BY <1>3

\* Number is that function's last value.
LEMMA NumberIs ==
  ASSUME NEW digits, Len(digits) \in Nat
  PROVE  \E f : Adds(f, digits, Len(digits)) /\ Number(digits) = f[Len(digits)]
  <1> DEFINE number == CHOOSE f : Adds(f, digits, Len(digits))
  <1>1. Adds(number, digits, Len(digits))
    BY AddsExists
  <1>2. Number(digits) = number[Len(digits)]
    BY Zenon DEF Number, Adds
  <1>3. QED
    BY <1>1, <1>2

\* Digits have a value that is not negative.
LEMMA NumberType ==
  ASSUME NEW digits, Len(digits) \in Nat, \A i \in 1 .. Len(digits) : IsDigit(digits[i])
  PROVE  Number(digits) \in Nat
  <1> DEFINE n == Len(digits)
  <1>1. PICK f : Adds(f, digits, n) /\ Number(digits) = f[n]
    BY NumberIs
  <1>2. \A i \in 0 .. n : f[i] = IF i = 0 THEN 0 ELSE 10 * f[i - 1] + DigitValue(digits[i])
    BY <1>1, AddsAt
  <1> DEFINE Bad == {i \in 0 .. n : f[i] \notin Nat}
  <1>3. Bad = {}
    <2> SUFFICES ASSUME Bad # {} PROVE FALSE
      OBVIOUS
    <2>1. PICK i \in Bad : \A j \in Bad : i <= j
      <3> Bad \in SUBSET Nat
        OBVIOUS
      <3> HIDE DEF Bad
      <3> QED
        BY LeastNatural
    <2>2. i # 0
      BY <1>2
    <2>3. i - 1 \in 0 .. n /\ i - 1 \notin Bad
      BY <2>1, <2>2
    <2>4. DigitValue(digits[i]) \in 0 .. 9
      BY <2>2, DigitValueType
    <2>5. f[i] = 10 * f[i - 1] + DigitValue(digits[i])
      BY <1>2, <2>2
    <2>6. f[i - 1] \in Nat /\ f[i] \notin Nat
      BY <2>1, <2>3
    <2> HIDE DEF n, Bad
    <2>7. QED
      BY <2>4, <2>5, <2>6
  <1>4. QED
    BY <1>1, <1>3

\* std::stoul takes the longest run of digits at the start.
LEMMA LeadingDigitsFacts ==
  ASSUME NEW s \in Seq(Byte)
  PROVE  \E k \in 0 .. Len(s) :
           /\ LeadingDigits(s) = SubSeq(s, 1, k)
           /\ \A i \in 1 .. k : IsDigit(s[i])
           /\ k < Len(s) => ~IsDigit(s[k + 1])
  <1> DEFINE Run(k) == /\ \A i \in 1 .. k : IsDigit(s[i])
                       /\ k < Len(s) => ~IsDigit(s[k + 1])
             Ends == {k \in Nat : k = Len(s) \/ (k < Len(s) /\ ~IsDigit(s[k + 1]))}
  <1>1. Len(s) \in Nat
    OBVIOUS
  <1>2. PICK n \in Ends : \A m \in Ends : n <= m
    <2>1. Ends \in SUBSET Nat /\ Ends # {}
      BY <1>1
    <2> HIDE DEF Ends
    <2>2. QED
      BY <2>1, LeastNatural
  <1>3. n \in 0 .. Len(s) /\ Run(n)
    <2>1. n \in 0 .. Len(s) /\ (n < Len(s) => ~IsDigit(s[n + 1]))
      BY <1>1, <1>2
    <2>2. ASSUME NEW i \in 1 .. n PROVE IsDigit(s[i])
      <3>1. i - 1 \in Nat /\ i - 1 < Len(s) /\ ~(n <= i - 1) /\ (i - 1) + 1 = i
        BY <2>1
      <3>2. i - 1 \notin Ends
        BY <1>2, <3>1
      <3>3. QED
        BY <3>1, <3>2
    <2>3. QED
      BY <2>1, <2>2
  <1> DEFINE k == CHOOSE j \in 0 .. Len(s) : Run(j)
  <1>4. k \in 0 .. Len(s) /\ Run(k)
    <2> HIDE DEF Run
    <2> QED
      BY <1>3
  <1>5. LeadingDigits(s) = SubSeq(s, 1, k)
    BY Zenon DEF LeadingDigits
  <1> HIDE DEF k
  <1>6. QED
    BY <1>4, <1>5

-----------------------------------------------------------------------------
(* Decimal numbers *)

\* The ten digits are different, and none of them is a byte of the syntax.
LEMMA DigitsAre ==
  /\ \A i \in 1 .. 10 : Digits[i] \in Byte /\ IsDigit(Digits[i])
  /\ \A i, j \in 1 .. 10 : Digits[i] = Digits[j] => i = j
  /\ \A c : IsDigit(c) => c \notin {"+", "-", ":", "e", "i", "l", "d", "NUL"}
  <1>1. /\ Digits[1] = "0" /\ Digits[2] = "1" /\ Digits[3] = "2" /\ Digits[4] = "3"
        /\ Digits[5] = "4" /\ Digits[6] = "5" /\ Digits[7] = "6" /\ Digits[8] = "7"
        /\ Digits[9] = "8" /\ Digits[10] = "9"
    BY DEF Digits
  <1>2. \A i \in 1 .. 10 : \/ i = 1 \/ i = 2 \/ i = 3 \/ i = 4 \/ i = 5
                           \/ i = 6 \/ i = 7 \/ i = 8 \/ i = 9 \/ i = 10
    OBVIOUS
  <1>3. \A i \in 1 .. 10 : Digits[i] \in Byte
    <2>1. \A i \in 1 .. 10 : Digits[i] \in Range(Digits)
      BY DEF Range, Digits
    <2>2. QED
      BY <2>1, BytesAssumption
  <1>4. \A i, j \in 1 .. 10 : Digits[i] = Digits[j] => i = j
    BY <1>1, <1>2
  <1>5. \A i \in 1 .. 10 : Digits[i] \notin {"+", "-", ":", "e", "i", "l", "d", "NUL"}
    BY <1>1, <1>2
  <1>6. QED
    BY <1>3, <1>4, <1>5 DEF IsDigit

\* The value of a digit is the one it is written for.
LEMMA DigitValueOf ==
  ASSUME NEW n \in 0 .. 9
  PROVE  DigitValue(Digits[n + 1]) = n
  <1>1. n + 1 \in 1 .. 10
    OBVIOUS
  <1> DEFINE i == CHOOSE j \in 1 .. 10 : Digits[j] = Digits[n + 1]
  <1>2. i \in 1 .. 10 /\ Digits[i] = Digits[n + 1]
    BY <1>1
  <1>3. i = n + 1
    BY <1>1, <1>2, DigitsAre
  <1>4. DigitValue(Digits[n + 1]) = i - 1
    BY Zenon DEF DigitValue
  <1> HIDE DEF i
  <1>5. QED
    BY <1>3, <1>4

\* The digit a number ends with, and the number without it.
Ending(n) == Digits[(n % 10) + 1]
Rest(n) == n \div 10

\* Division with remainder.
LEMMA DivisionByTen ==
  ASSUME NEW n \in Nat, NEW q, q = n \div 10, NEW r, r = n % 10
  PROVE  q \in Nat /\ r \in 0 .. 9 /\ n = 10 * q + r
  <1>1. q \in Nat /\ r \in 0 .. 9
    BY SMT
  <1>2. QED
    BY <1>1, SMT

LEMMA AppendOne ==
  ASSUME NEW S, NEW s \in Seq(S), NEW c \in S
  PROVE  s \o <<c>> = Append(s, c)
  OBVIOUS

\* A number's last digit, and what is in front of it.
LEMMA RestAndEnding ==
  ASSUME NEW n \in Nat
  PROVE  /\ Ending(n) \in Byte /\ IsDigit(Ending(n)) /\ DigitValue(Ending(n)) = n % 10
         /\ n % 10 \in 0 .. 9 /\ Rest(n) \in Nat /\ n = 10 * Rest(n) + (n % 10)
         /\ n >= 10 => Rest(n) < n /\ Rest(n) > 0
         /\ n < 10 => Ending(n) = Digits[n + 1] /\ n % 10 = n
  <1>1. n % 10 \in 0 .. 9 /\ n \div 10 \in Nat /\ n = 10 * (n \div 10) + (n % 10)
    <2> DEFINE q == n \div 10
               r == n % 10
    <2>1. q = n \div 10 /\ r = n % 10
      OBVIOUS
    <2> HIDE DEF q, r
    <2>2. q \in Nat /\ r \in 0 .. 9 /\ n = 10 * q + r
      BY <2>1, DivisionByTen
    <2>3. QED
      BY <2>1, <2>2, Zenon
  <1>2. (n % 10) + 1 \in 1 .. 10
    BY <1>1
  <1>3. Ending(n) \in Byte /\ IsDigit(Ending(n))
    BY <1>2, DigitsAre DEF Ending
  <1>4. DigitValue(Ending(n)) = n % 10
    BY <1>1, DigitValueOf DEF Ending
  <1>5. n >= 10 => Rest(n) < n /\ Rest(n) > 0
    BY <1>1 DEF Rest
  <1>6. n < 10 => Ending(n) = Digits[n + 1] /\ n % 10 = n
    BY <1>1 DEF Ending
  <1>7. QED
    BY <1>1, <1>3, <1>4, <1>5, <1>6 DEF Rest

\* The recursion of to_string, resolved: the digits of n div 10, then the last
\* one.
LEMMA NatTextIs ==
  /\ \A n \in Nat : NatText[n] \in Seq(Byte)
  /\ \A n \in Nat : NatText[n] = IF n < 10 THEN <<Ending(n)>>
                                 ELSE Append(NatText[Rest(n)], Ending(n))
  <1> DEFINE R == Seq(Byte)
             rule(f, n) == IF n < 10 THEN <<Ending(n)>> ELSE Append(f[Rest(n)], Ending(n))
             G == [n \in Nat |-> [f \in [Nat -> R] |-> rule(f, n)]]
             rank == [n \in Nat |-> n]
  <1>1. G \in [Nat -> [[Nat -> R] -> R]]
    <2>1. ASSUME NEW n \in Nat, NEW f \in [Nat -> R] PROVE rule(f, n) \in R
      <3>1. Rest(n) \in Nat /\ Ending(n) \in Byte
        BY RestAndEnding
      <3>2. f[Rest(n)] \in R
        BY <3>1
      <3>3. Append(f[Rest(n)], Ending(n)) \in R /\ <<Ending(n)>> \in R
        BY <3>1, <3>2
      <3> HIDE DEF R
      <3>4. QED
        BY <3>3
    <2> HIDE DEF rule, R
    <2>2. QED
      BY <2>1
  <1>2. LooksDown(Nat, R, G, rank)
    <2>1. ASSUME NEW n \in Nat, NEW f \in [Nat -> R], NEW g \in [Nat -> R],
                 \A e \in Nat : rank[e] < rank[n] => f[e] = g[e]
          PROVE  rule(f, n) = rule(g, n)
      <3>1. CASE n < 10
        BY <3>1
      <3>2. CASE n >= 10
        <4>1. Rest(n) \in Nat /\ Rest(n) < n
          BY <3>2, RestAndEnding
        <4>2. rank[Rest(n)] < rank[n]
          BY <4>1
        <4>3. f[Rest(n)] = g[Rest(n)]
          BY <2>1, <4>1, <4>2
        <4>4. QED
          BY <4>3
      <3>3. QED
        BY <3>1, <3>2
    <2>2. \A n \in Nat : \A f \in [Nat -> R] : G[n][f] = rule(f, n)
      <3> HIDE DEF rule, R
      <3> QED
        OBVIOUS
    <2> HIDE DEF rule, R, G, rank
    <2>3. QED
      BY <2>1, <2>2 DEF LooksDown
  <1>3. R # {} /\ rank \in [Nat -> Nat]
    <2>1. << >> \in R
      OBVIOUS
    <2> HIDE DEF R
    <2>2. QED
      BY <2>1
  <1>4. PICK f \in [Nat -> R] : Solves(f, Nat, G)
    <2> HIDE DEF G, R, rank
    <2>1. QED
      BY <1>1, <1>2, <1>3, Recursion
  <1>5. \A n \in Nat : f[n] = rule(f, n)
    <2>1. \A n \in Nat : G[n][f] = rule(f, n)
      <3> HIDE DEF rule, R
      <3> QED
        OBVIOUS
    <2>2. f = [n \in Nat |-> G[n][f]]
      BY <1>4 DEF Solves
    <2> HIDE DEF rule, R, G
    <2>3. \A n \in Nat : f[n] = G[n][f]
      BY <2>2
    <2>4. QED
      BY <2>1, <2>3
  <1> DEFINE text(g) == [n \in Nat |-> IF n < 10 THEN <<Digits[n + 1]>>
                               ELSE g[n \div 10] \o <<Digits[(n % 10) + 1]>>]
  <1>6. ASSUME NEW g, NEW n \in Nat, n >= 10 => g[Rest(n)] \in Seq(Byte)
        PROVE  text(g)[n] = rule(g, n)
    <2>1. text(g)[n] = IF n < 10 THEN <<Digits[n + 1]>>
                       ELSE g[n \div 10] \o <<Digits[(n % 10) + 1]>>
      BY Zenon
    <2>2. CASE n < 10
      <3>1. text(g)[n] = <<Digits[n + 1]>>
        BY <2>1, <2>2, Zenon
      <3>2. QED
        BY <2>2, <3>1, RestAndEnding
    <2>3. CASE n >= 10
      <3>1. g[Rest(n)] \in Seq(Byte) /\ Ending(n) \in Byte /\ ~(n < 10)
        BY <1>6, <2>3, RestAndEnding
      <3>2. text(g)[n] = g[Rest(n)] \o <<Ending(n)>>
        BY <2>1, <3>1, Zenon DEF Rest, Ending
      <3>3. g[Rest(n)] \o <<Ending(n)>> = Append(g[Rest(n)], Ending(n))
        BY <3>1, AppendOne
      <3>4. rule(g, n) = Append(g[Rest(n)], Ending(n))
        BY <3>1, Zenon
      <3>5. QED
        BY <3>2, <3>3, <3>4
    <2>4. QED
      BY <2>2, <2>3
  <1>7. f = text(f)
    <2>1. \A n \in Nat : Rest(n) \in Nat
      BY RestAndEnding
    <2>2. \A n \in Nat : f[n] = text(f)[n]
      BY <1>5, <1>6, <2>1
    <2>3. f = [n \in Nat |-> f[n]]
      OBVIOUS
    <2>4. [n \in Nat |-> f[n]] = [n \in Nat |-> text(f)[n]]
      <3> HIDE DEF text
      <3> QED
        BY <2>2
    <2>5. [n \in Nat |-> text(f)[n]] = text(f)
      OBVIOUS
    <2>6. QED
      BY <2>3, <2>4, <2>5, Zenon
  <1>8. NatText = text(NatText)
    <2>1. NatText = CHOOSE g : g = text(g)
      BY Zenon DEF NatText
    <2> HIDE DEF text
    <2>2. QED
      BY <1>7, <2>1
  <1>9. \A n \in Nat : NatText[n] \in R
    <2> DEFINE Bad == {n \in Nat : NatText[n] \notin R}
    <2> SUFFICES ASSUME Bad # {} PROVE FALSE
      OBVIOUS
    <2>1. PICK n \in Bad : \A m \in Bad : n <= m
      <3> Bad \in SUBSET Nat
        OBVIOUS
      <3> HIDE DEF Bad
      <3> QED
        BY LeastNatural
    <2>2. n \in Nat
      OBVIOUS
    <2>3. ASSUME n >= 10 PROVE NatText[Rest(n)] \in R
      <3>1. Rest(n) \in Nat /\ ~(n <= Rest(n))
        <4> HIDE DEF Bad
        <4>1. Rest(n) \in Nat /\ Rest(n) < n
          BY <2>2, <2>3, RestAndEnding
        <4>2. QED
          BY <2>2, <4>1
      <3>2. Rest(n) \notin Bad
        BY <2>1, <3>1
      <3>3. QED
        BY <3>1, <3>2
    <2>4. NatText[n] = rule(NatText, n)
      <3>1. NatText[n] = text(NatText)[n]
        <4> HIDE DEF text
        <4> QED
          BY <1>8
      <3> HIDE DEF rule, text
      <3>2. QED
        BY <1>6, <2>3, <3>1
    <2>5. Ending(n) \in Byte
      BY RestAndEnding
    <2>6. rule(NatText, n) \in R
      <3>1. CASE n < 10
        BY <2>5, <3>1
      <3>2. CASE n >= 10
        <4>1. NatText[Rest(n)] \in Seq(Byte)
          BY <2>3, <3>2
        <4>2. Append(NatText[Rest(n)], Ending(n)) \in Seq(Byte)
          BY <2>5, <4>1
        <4>3. ~(n < 10)
          BY <2>2, <3>2
        <4>4. QED
          BY <4>2, <4>3
      <3>3. QED
        BY <2>2, <3>1, <3>2
    <2>7. QED
      BY <2>4, <2>6
  <1>10. \A n \in Nat : NatText[n] = rule(NatText, n)
    <2>1. \A n \in Nat : Rest(n) \in Nat
      BY RestAndEnding
    <2>2. \A n \in Nat : NatText[n] = text(NatText)[n]
      <3> HIDE DEF text
      <3> QED
        BY <1>8
    <2> HIDE DEF rule, text
    <2>3. QED
      BY <1>6, <1>9, <2>1, <2>2
  <1>11. QED
    BY <1>9, <1>10

\* f and g add up to the same as far as the digits are the same.
LEMMA AddsAgree ==
  ASSUME NEW f, NEW s, NEW n \in Nat, Adds(f, s, n),
         NEW g, NEW t, NEW m \in Nat, Adds(g, t, m), n <= m,
         \A i \in 1 .. n : s[i] = t[i]
  PROVE  f[n] = g[n]
  <1> DEFINE Bad == {i \in 0 .. n : f[i] # g[i]}
  <1>1. ASSUME NEW i \in 0 .. n
        PROVE  /\ f[i] = IF i = 0 THEN 0 ELSE 10 * f[i - 1] + DigitValue(s[i])
               /\ g[i] = IF i = 0 THEN 0 ELSE 10 * g[i - 1] + DigitValue(t[i])
    <2>1. i \in 0 .. m
      OBVIOUS
    <2>2. QED
      BY <2>1, AddsAt
  <1>2. Bad = {}
    <2> SUFFICES ASSUME Bad # {} PROVE FALSE
      OBVIOUS
    <2>1. PICK i \in Bad : \A j \in Bad : i <= j
      <3> Bad \in SUBSET Nat
        OBVIOUS
      <3> HIDE DEF Bad
      <3> QED
        BY LeastNatural
    <2>2. i # 0
      BY <1>1
    <2>3. i - 1 \in 0 .. n /\ i - 1 \notin Bad
      BY <2>1, <2>2
    <2>4. f[i - 1] = g[i - 1] /\ s[i] = t[i] /\ f[i] # g[i]
      BY <2>2, <2>3
    <2>5. QED
      BY <1>1, <2>2, <2>4
  <1>3. QED
    BY <1>2

\* The value of one digit, and of a digit more.
LEMMA NumberOne ==
  ASSUME NEW c, IsDigit(c)
  PROVE  Number(<<c>>) = DigitValue(c)
  <1>1. Len(<<c>>) = 1 /\ <<c>>[1] = c
    OBVIOUS
  <1>2. PICK f : Adds(f, <<c>>, 1) /\ Number(<<c>>) = f[1]
    BY <1>1, NumberIs
  <1>3. f[0] = 0 /\ f[1] = 10 * f[0] + DigitValue(c)
    BY <1>1, <1>2, AddsAt
  <1>4. QED
    BY <1>2, <1>3, DigitValueType

LEMMA NumberAppend ==
  ASSUME NEW s \in Seq(Byte), NEW c \in Byte
  PROVE  Number(Append(s, c)) = 10 * Number(s) + DigitValue(c)
  <1> DEFINE t == Append(s, c)
             n == Len(s)
             m == n + 1
  <1>1. n \in Nat /\ m \in Nat /\ Len(t) = m /\ t[m] = c /\ \A i \in 1 .. n : s[i] = t[i]
    OBVIOUS
  <1>2. n = Len(s) /\ m = n + 1
    OBVIOUS
  <1> HIDE DEF t, n, m
  <1>3. PICK f : Adds(f, s, n) /\ Number(s) = f[n]
    BY <1>1, <1>2, NumberIs
  <1>4. PICK g : Adds(g, t, m) /\ Number(t) = g[m]
    BY <1>1, NumberIs
  <1>5. f[n] = g[n]
    BY <1>1, <1>2, <1>3, <1>4, AddsAgree
  <1>6. m \in 0 .. m /\ m # 0 /\ m - 1 = n
    BY <1>1, <1>2
  <1>7. g[m] = 10 * g[m - 1] + DigitValue(t[m])
    BY <1>1, <1>4, <1>6, AddsAt
  <1>8. QED
    BY <1>1, <1>3, <1>4, <1>5, <1>6, <1>7 DEF t

\* A number as to_string writes it: digits that give the number back, without
\* a zero in front.
Numeral(t, n) ==
  /\ t \in Seq(Byte) /\ Len(t) >= 1
  /\ \A i \in 1 .. Len(t) : IsDigit(t[i])
  /\ Number(t) = n
  /\ t[1] = "0" => Len(t) = 1
  /\ n > 0 => t[1] # "0"

\* Numerals of one digit, and of one more.
LEMMA NumeralShort ==
  ASSUME NEW n \in Nat, n < 10
  PROVE  Numeral(NatText[n], n)
  <1> DEFINE c == Digits[n + 1]
  <1>1. NatText[n] = <<c>> /\ IsDigit(c) /\ c \in Byte /\ DigitValue(c) = n
    <2>1. NatText[n] = <<Ending(n)>>
      BY NatTextIs
    <2>2. Ending(n) = c /\ n % 10 = n
      BY RestAndEnding
    <2>3. Ending(n) \in Byte /\ IsDigit(Ending(n)) /\ DigitValue(Ending(n)) = n % 10
      BY RestAndEnding
    <2> HIDE DEF c
    <2>4. QED
      BY <2>1, <2>2, <2>3
  <1>2. n > 0 => c # "0"
    <2>1. Digits[1] = "0" /\ n + 1 \in 1 .. 10 /\ 1 \in 1 .. 10
      BY DEF Digits
    <2>2. QED
      BY <2>1, DigitsAre
  <1> HIDE DEF c
  <1>3. Number(<<c>>) = n
    BY <1>1, NumberOne
  <1>4. <<c>> \in Seq(Byte) /\ Len(<<c>>) = 1 /\ <<c>>[1] = c
    BY <1>1
  <1>5. QED
    BY <1>1, <1>2, <1>3, <1>4 DEF Numeral

LEMMA NumeralLonger ==
  ASSUME NEW n \in Nat, n >= 10, Numeral(NatText[Rest(n)], Rest(n))
  PROVE  Numeral(NatText[n], n)
  <1> DEFINE c == Ending(n)
             s == NatText[Rest(n)]
             t == Append(s, c)
  <1>1. /\ ~(n < 10) /\ Rest(n) \in Nat /\ Rest(n) > 0 /\ n = 10 * Rest(n) + (n % 10)
        /\ IsDigit(c) /\ c \in Byte /\ DigitValue(c) = n % 10
    BY RestAndEnding
  <1>2. NatText[n] = t
    BY <1>1, NatTextIs
  <1> HIDE DEF c
  <1>3. s \in Seq(Byte) /\ Len(s) >= 1 /\ Number(s) = Rest(n) /\ s[1] # "0"
        /\ \A i \in 1 .. Len(s) : IsDigit(s[i])
    BY <1>1 DEF Numeral
  <1>4. Number(t) = n
    BY <1>1, <1>3, NumberAppend
  <1> HIDE DEF s
  <1>5. /\ t \in Seq(Byte) /\ Len(t) = Len(s) + 1 /\ t[1] = s[1]
        /\ \A i \in 1 .. Len(t) : IsDigit(t[i])
    BY <1>1, <1>3
  <1>6. QED
    BY <1>2, <1>3, <1>4, <1>5 DEF Numeral

\* to_string for every natural number.
LEMMA Numerals ==
  ASSUME NEW n \in Nat
  PROVE  Numeral(NatText[n], n)
  <1> DEFINE Bad == {k \in Nat : ~Numeral(NatText[k], k)}
  <1>1. Bad = {}
    <2> SUFFICES ASSUME Bad # {} PROVE FALSE
      OBVIOUS
    <2>1. PICK k \in Bad : \A m \in Bad : k <= m
      <3> Bad \in SUBSET Nat
        OBVIOUS
      <3> HIDE DEF Bad
      <3> QED
        BY LeastNatural
    <2>2. k \in Nat /\ k >= 10
      BY NumeralShort
    <2>3. Rest(k) \in Nat /\ Rest(k) < k
      BY <2>2, RestAndEnding
    <2>4. Rest(k) \notin Bad
      <3> HIDE DEF Bad
      <3> QED
        BY <2>1, <2>2, <2>3
    <2>5. QED
      BY <2>2, <2>3, <2>4, NumeralLonger
  <1>2. QED
    BY <1>1

\* The bytes of the syntax are bytes of texts.
LEMMA SyntaxBytes == {"-", ":", "d", "e", "i", "l"} \subseteq Byte
  BY BytesAssumption

\* What to_string writes of an int64_t is what parseInt takes.
LEMMA ToTextFacts ==
  ASSUME NEW n \in Int
  PROVE  /\ ToText(n) \in Seq(Byte) /\ Len(ToText(n)) >= 1
         /\ \A i \in 1 .. Len(ToText(n)) : ToText(n)[i] \notin {"e", ":"}
         /\ IsValidBencodeInt(ToText(n)) /\ IntValue(ToText(n)) = n
         /\ n >= 0 => Numeral(ToText(n), n)
  <1>1. CASE n >= 0
    <2> DEFINE t == ToText(n)
    <2>1. n \in Nat /\ t = NatText[n]
      BY <1>1 DEF ToText
    <2>2. Numeral(t, n)
      BY <2>1, Numerals
    <2> HIDE DEF t
    <2>3. \A i \in 1 .. Len(t) : t[i] \notin {"-", "e", ":"}
      BY <2>2, DigitsAre DEF Numeral
    <2>4. t # << >> /\ t[1] # "-" /\ 1 \in 1 .. Len(t) /\ DOMAIN t = 1 .. Len(t)
      BY <2>2, <2>3 DEF Numeral
    <2>5. IsValidBencodeInt(t)
      BY <2>2, <2>4 DEF Numeral, IsValidBencodeInt, AllDigits
    <2>6. IntValue(t) = n
      BY <2>2, <2>4 DEF Numeral, IntValue
    <2>7. QED
      BY <2>2, <2>3, <2>5, <2>6 DEF Numeral, t
  <1>2. CASE n < 0
    <2> DEFINE x == NatText[-n]
               t == <<"-">> \o x
    <2>1. -n \in Nat /\ -n > 0 /\ ToText(n) = t
      BY <1>2 DEF ToText
    <2>2. Numeral(x, -n)
      BY <2>1, Numerals
    <2> HIDE DEF x
    <2>3. x \in Seq(Byte) /\ Len(x) >= 1 /\ DOMAIN x = 1 .. Len(x) /\ x # << >>
      BY <2>2 DEF Numeral
    <2>4. "-" \in Byte
      BY SyntaxBytes
    <2>5. /\ t \in Seq(Byte) /\ Len(t) = Len(x) + 1 /\ t[1] = "-" /\ Tail(t) = x /\ t # << >>
          /\ \A i \in 1 .. Len(t) : t[i] = IF i = 1 THEN "-" ELSE x[i - 1]
      BY <2>3, <2>4
    <2> HIDE DEF t
    <2>6. \A i \in 1 .. Len(t) : t[i] \notin {"e", ":"}
      <3> TAKE i \in 1 .. Len(t)
      <3>1. CASE i = 1
        BY <2>5, <3>1
      <3>2. CASE i # 1
        <4>1. i - 1 \in 1 .. Len(x) /\ t[i] = x[i - 1]
          BY <2>3, <2>5, <3>2
        <4>2. QED
          BY <2>2, <4>1, DigitsAre DEF Numeral
      <3>3. QED
        BY <3>1, <3>2
    <2>7. IsValidBencodeInt(t)
      BY <2>1, <2>2, <2>3, <2>5 DEF Numeral, IsValidBencodeInt, AllDigits
    <2>8. IntValue(t) = n
      <3>1. Number(x) = -n /\ -(-n) = n
        BY <2>2 DEF Numeral
      <3>2. IntValue(t) = -Number(x)
        BY <2>5 DEF IntValue
      <3>3. QED
        BY <3>1, <3>2
    <2>9. QED
      BY <1>2, <2>1, <2>3, <2>5, <2>6, <2>7, <2>8
  <1>3. QED
    BY <1>1, <1>2

\* Every number that encode() writes, parseInt reads: it is no malformed
\* integer, and its value is the one that was written.
THEOREM NumbersAreRecovered ==
  \A n \in Int : IsValidBencodeInt(ToText(n)) /\ IntValue(ToText(n)) = n
  BY ToTextFacts

\* A numeral is digits to its end.
LEMMA AllLeading ==
  ASSUME NEW t \in Seq(Byte), \A i \in 1 .. Len(t) : IsDigit(t[i])
  PROVE  LeadingDigits(t) = t
  <1>1. PICK k \in 0 .. Len(t) :
           /\ LeadingDigits(t) = SubSeq(t, 1, k)
           /\ k < Len(t) => ~IsDigit(t[k + 1])
    BY LeadingDigitsFacts
  <1>2. k = Len(t)
    BY <1>1
  <1>3. SubSeq(t, 1, Len(t)) = t
    OBVIOUS
  <1>4. QED
    BY <1>1, <1>2, <1>3

\* stoul takes a numeral whole.
LEMMA NumeralRead ==
  ASSUME NEW t \in Seq(Byte), Len(t) >= 1, \A i \in 1 .. Len(t) : IsDigit(t[i]),
         NEW n \in 0 .. MaxSize, Number(t) = n
  PROVE  Stoul(t) = {n}
  <1>1. t[1] \notin Blanks /\ t[1] \notin {"+", "-"} /\ Len(t) \in Nat
    <2>1. IsDigit(t[1])
      OBVIOUS
    <2>2. QED
      BY <2>1, DigitsAre, ParserAssumption
  <1>2. AfterBlanks(t) = t
    <2> DEFINE Run(k) == /\ \A i \in 1 .. k : t[i] \in Blanks
                         /\ k < Len(t) => t[k + 1] \notin Blanks
               m == CHOOSE k \in 0 .. Len(t) : Run(k)
    <2>1. 0 \in 0 .. Len(t) /\ Run(0)
      BY <1>1
    <2>2. m \in 0 .. Len(t) /\ Run(m)
      <3> HIDE DEF Run
      <3> QED
        BY <2>1
    <2>3. AfterBlanks(t) = SubSeq(t, m + 1, Len(t))
      BY Zenon DEF AfterBlanks
    <2> HIDE DEF m
    <2>4. m = 0
      BY <1>1, <2>2
    <2>5. SubSeq(t, 1, Len(t)) = t
      OBVIOUS
    <2>6. QED
      BY <2>3, <2>4, <2>5
  <1>3. LeadingDigits(t) = t
    BY AllLeading
  <1>4. t # << >>
    BY <1>1
  <1>5. QED
    BY <1>1, <1>2, <1>3, <1>4 DEF Stoul

\* The encoding of a string starts with a digit.
LEMMA EncodeStringFacts ==
  ASSUME NEW s \in Seq(Byte)
  PROVE  /\ EncodeString(s) \in Seq(Byte)
         /\ Len(EncodeString(s)) = Len(ToText(Len(s))) + 1 + Len(s)
         /\ Len(EncodeString(s)) >= 2 /\ IsDigit(EncodeString(s)[1])
  <1> DEFINE x == ToText(Len(s))
             y == <<":">>
  <1>1. Len(s) \in Nat /\ x \in Seq(Byte) /\ Len(x) >= 1 /\ IsDigit(x[1])
    <2>1. Len(s) \in Int /\ Len(s) >= 0
      OBVIOUS
    <2>2. Numeral(x, Len(s))
      BY <2>1, ToTextFacts
    <2> HIDE DEF x
    <2>3. QED
      BY <2>1, <2>2 DEF Numeral
  <1>2. y \in Seq(Byte) /\ Len(y) = 1
    BY SyntaxBytes
  <1> HIDE DEF x, y
  <1>3. /\ (x \o y) \o s \in Seq(Byte)
        /\ Len((x \o y) \o s) = Len(x) + 1 + Len(s)
        /\ ((x \o y) \o s)[1] = x[1]
    <2> DEFINE xy == x \o y
    <2>1. xy \in Seq(Byte) /\ Len(xy) = Len(x) + 1 /\ xy[1] = x[1] /\ Len(xy) \in Nat
      BY <1>1, <1>2
    <2> HIDE DEF xy
    <2>2. xy \o s \in Seq(Byte) /\ Len(xy \o s) = Len(xy) + Len(s) /\ (xy \o s)[1] = xy[1]
      BY <1>1, <2>1
    <2>3. QED
      BY <1>1, <2>1, <2>2 DEF xy
  <1>4. QED
    BY <1>1, <1>3 DEF EncodeString, x, y

-----------------------------------------------------------------------------
(* What stands in the text *)

\* t stands at p in d, as far as d goes.
Stands(d, p, t) == \A i \in 1 .. Len(t) : p + i - 1 <= Len(d) => d[p + i - 1] = t[i]

\* What stands in the text as a whole stands there in parts.
LEMMA StandsConcat ==
  ASSUME NEW d, Len(d) \in Nat, NEW p \in Nat, NEW S, NEW s \in Seq(S), NEW t \in Seq(S),
         Stands(d, p, s \o t)
  PROVE  Stands(d, p, s) /\ Stands(d, p + Len(s), t)
  <1> DEFINE u == s \o t
  <1>1. /\ Len(s) \in Nat /\ Len(t) \in Nat /\ Len(u) = Len(s) + Len(t)
        /\ \A i \in 1 .. Len(s) : u[i] = s[i]
        /\ \A i \in 1 .. Len(t) : u[Len(s) + i] = t[i]
    OBVIOUS
  <1> HIDE DEF u
  <1>2. ASSUME NEW i \in 1 .. Len(s), p + i - 1 <= Len(d)
        PROVE  d[p + i - 1] = s[i]
    <2>1. i \in 1 .. Len(u) /\ u[i] = s[i]
      BY <1>1
    <2>2. QED
      BY <1>2, <2>1 DEF Stands, u
  <1>3. ASSUME NEW i \in 1 .. Len(t), (p + Len(s)) + i - 1 <= Len(d)
        PROVE  d[(p + Len(s)) + i - 1] = t[i]
    <2> DEFINE j == Len(s) + i
    <2>1. j \in 1 .. Len(u) /\ (p + Len(s)) + i - 1 = p + j - 1 /\ u[j] = t[i]
      BY <1>1
    <2> HIDE DEF j
    <2>2. QED
      BY <1>3, <2>1 DEF Stands, u
  <1>4. QED
    BY <1>2, <1>3 DEF Stands

\* The byte at p, if the text goes that far.
LEMMA StandsFirst ==
  ASSUME NEW d, Len(d) \in Nat, NEW p \in Nat, NEW t, Len(t) \in Nat, Len(t) # 0,
         Stands(d, p, t), p <= Len(d)
  PROVE  d[p] = t[1]
  <1>1. 1 \in 1 .. Len(t) /\ p + 1 - 1 = p
    OBVIOUS
  <1>2. QED
    BY <1>1 DEF Stands

-----------------------------------------------------------------------------
(* The order of keys *)

\* Different bytes have different codes.
LEMMA CodeFacts ==
  ASSUME NEW c \in Byte
  PROVE  Code(c) \in Nat /\ Bytes[Code(c)] = c
  <1>1. Len(Bytes) \in Nat /\ DOMAIN Bytes = 1 .. Len(Bytes)
    BY BytesAssumption
  <1>2. \E i \in 1 .. Len(Bytes) : Bytes[i] = c
    BY <1>1 DEF Byte, Range
  <1>3. Code(c) \in 1 .. Len(Bytes) /\ Bytes[Code(c)] = c
    BY <1>2 DEF Code
  <1>4. QED
    BY <1>1, <1>3

\* l is longer than k, or has the higher code, at the first place i where they
\* differ.
DiffersAt(k, l, i) ==
  /\ i \in 1 .. Len(l) /\ i <= Len(k) + 1
  /\ \A j \in 1 .. i - 1 : k[j] = l[j]
  /\ i = Len(k) + 1 \/ Code(k[i]) < Code(l[i])

\* Two keys are ordered by the first place they differ at.
LEMMA KeyBeforeIs ==
  ASSUME NEW k \in Seq(Byte), NEW l \in Seq(Byte)
  PROVE  KeyBefore(k, l) <=> \E i \in Nat : DiffersAt(k, l, i)
  <1>1. DOMAIN l = 1 .. Len(l)
    OBVIOUS
  <1>2. QED
    BY <1>1 DEF KeyBefore, DiffersAt

\* The order is strict, total and transitive.
LEMMA KeyIrreflexive ==
  ASSUME NEW k \in Seq(Byte)
  PROVE  ~KeyBefore(k, k)
  <1> SUFFICES ASSUME NEW i \in Nat, DiffersAt(k, k, i) PROVE FALSE
    BY KeyBeforeIs
  <1>1. i \in 1 .. Len(k) /\ k[i] \in Byte /\ i # Len(k) + 1
    BY DEF DiffersAt
  <1>2. Code(k[i]) \in Nat
    BY <1>1, CodeFacts
  <1>3. QED
    BY <1>1, <1>2 DEF DiffersAt

LEMMA KeyTotal ==
  ASSUME NEW k \in Seq(Byte), NEW l \in Seq(Byte), k # l
  PROVE  KeyBefore(k, l) \/ KeyBefore(l, k)
  <1> DEFINE Places == {i \in Nat : i >= 1 /\ (i > Len(k) \/ i > Len(l) \/ k[i] # l[i])}
  <1>1. Len(k) \in Nat /\ Len(l) \in Nat
    OBVIOUS
  <1>2. PICK i \in Places : \A j \in Places : i <= j
    <2>1. Places \in SUBSET Nat
      OBVIOUS
    <2>2. Len(k) + 1 \in Places
      BY <1>1
    <2> HIDE DEF Places
    <2>3. QED
      BY <2>1, <2>2, LeastNatural
  <1>3. i \in Nat /\ i >= 1
    OBVIOUS
  <1>4. \A j \in 1 .. i - 1 : j <= Len(k) /\ j <= Len(l) /\ k[j] = l[j]
    <2> TAKE j \in 1 .. i - 1
    <2>1. j \in Nat /\ j >= 1 /\ ~(i <= j)
      BY <1>3
    <2>2. j \notin Places
      <3> HIDE DEF Places
      <3> QED
        BY <1>2, <2>1
    <2>3. QED
      BY <1>1, <2>1, <2>2
  <1>5. i <= Len(k) + 1 /\ i <= Len(l) + 1
    <2>1. CASE i = 1
      BY <1>1, <2>1
    <2>2. CASE i # 1
      <3>1. i - 1 \in 1 .. i - 1
        BY <1>3, <2>2
      <3>2. i - 1 <= Len(k) /\ i - 1 <= Len(l)
        BY <1>4, <3>1
      <3>3. QED
        BY <1>1, <1>3, <3>2
    <2>3. QED
      BY <2>1, <2>2
  <1>6. CASE i <= Len(k) /\ i <= Len(l)
    <2>1. k[i] # l[i] /\ k[i] \in Byte /\ l[i] \in Byte
      BY <1>1, <1>3, <1>6
    <2>2. Code(k[i]) \in Nat /\ Code(l[i]) \in Nat /\ Code(k[i]) # Code(l[i])
      BY <2>1, CodeFacts
    <2>3. Code(k[i]) < Code(l[i]) \/ Code(l[i]) < Code(k[i])
      BY <2>2
    <2> HIDE DEF Places
    <2>4. DiffersAt(k, l, i) \/ DiffersAt(l, k, i)
      BY <1>1, <1>3, <1>4, <1>5, <1>6, <2>3 DEF DiffersAt
    <2>5. QED
      BY <1>3, <2>4, KeyBeforeIs
  <1> HIDE DEF Places
  <1>7. CASE i > Len(k) /\ i <= Len(l)
    <2>1. DiffersAt(k, l, i)
      BY <1>1, <1>3, <1>4, <1>5, <1>7 DEF DiffersAt
    <2>2. QED
      BY <1>3, <2>1, KeyBeforeIs
  <1>8. CASE i <= Len(k) /\ i > Len(l)
    <2>1. DiffersAt(l, k, i)
      BY <1>1, <1>3, <1>4, <1>5, <1>8 DEF DiffersAt
    <2>2. QED
      BY <1>3, <2>1, KeyBeforeIs
  <1>9. CASE i > Len(k) /\ i > Len(l)
    <2>1. Len(k) = i - 1 /\ Len(l) = i - 1
      BY <1>1, <1>3, <1>5, <1>9
    <2>2. k = l
      BY <1>4, <2>1
    <2>3. QED
      BY <2>2
  <1>10. QED
    BY <1>1, <1>3, <1>6, <1>7, <1>8, <1>9

LEMMA KeyTransitive ==
  ASSUME NEW k \in Seq(Byte), NEW l \in Seq(Byte), NEW m \in Seq(Byte),
         KeyBefore(k, l), KeyBefore(l, m)
  PROVE  KeyBefore(k, m)
  <1>1. PICK i \in Nat : DiffersAt(k, l, i)
    BY KeyBeforeIs
  <1>2. PICK j \in Nat : DiffersAt(l, m, j)
    BY KeyBeforeIs
  <1>3. /\ Len(k) \in Nat /\ Len(l) \in Nat /\ Len(m) \in Nat
        /\ i \in 1 .. Len(l) /\ i <= Len(k) + 1 /\ (i = Len(k) + 1 \/ Code(k[i]) < Code(l[i]))
        /\ j \in 1 .. Len(m) /\ j <= Len(l) + 1 /\ (j = Len(l) + 1 \/ Code(l[j]) < Code(m[j]))
        /\ \A n \in 1 .. i - 1 : k[n] = l[n]
        /\ \A n \in 1 .. j - 1 : l[n] = m[n]
    BY <1>1, <1>2 DEF DiffersAt
  <1>4. CASE i < j
    <2>1. l[i] = m[i] /\ i \in 1 .. Len(m)
      BY <1>3, <1>4
    <2>2. \A n \in 1 .. i - 1 : k[n] = m[n]
      BY <1>3, <1>4
    <2>3. DiffersAt(k, m, i)
      BY <1>3, <2>1, <2>2 DEF DiffersAt
    <2>4. QED
      BY <2>3, KeyBeforeIs
  <1>5. CASE j < i
    <2>1. k[j] = l[j] /\ j <= Len(k) + 1 /\ j # Len(l) + 1
      BY <1>3, <1>5
    <2>2. \A n \in 1 .. j - 1 : k[n] = m[n]
      BY <1>3, <1>5
    <2>3. DiffersAt(k, m, j)
      BY <1>3, <2>1, <2>2 DEF DiffersAt
    <2>4. QED
      BY <2>3, KeyBeforeIs
  <1>6. CASE i = j
    <2>1. Code(l[i]) < Code(m[i])
      BY <1>3, <1>6
    <2>2. i = Len(k) + 1 \/ Code(k[i]) < Code(m[i])
      <3>1. CASE i <= Len(k)
        <4>1. Code(k[i]) \in Nat /\ Code(l[i]) \in Nat /\ Code(m[i]) \in Nat
          <5>1. k[i] \in Byte /\ l[i] \in Byte /\ m[i] \in Byte
            BY <1>3, <1>6, <3>1
          <5>2. QED
            BY <5>1, CodeFacts
        <4>2. QED
          BY <1>3, <2>1, <4>1
      <3>2. CASE i > Len(k)
        BY <1>3, <3>2
      <3>3. QED
        BY <1>3, <3>1, <3>2
    <2>3. \A n \in 1 .. i - 1 : k[n] = m[n]
      BY <1>3, <1>6
    <2>4. DiffersAt(k, m, i)
      BY <1>3, <1>6, <2>2, <2>3 DEF DiffersAt
    <2>5. QED
      BY <2>4, KeyBeforeIs
  <1>7. QED
    BY <1>3, <1>4, <1>5, <1>6

\* m is the last of the keys.
IsLast(m, keys) == m \in keys /\ \A k \in keys \ {m} : KeyBefore(k, m)

\* A finite set of keys has a last one.
LEMMA OneMoreKey ==
  ASSUME NEW keys \in SUBSET Seq(Byte), NEW x \in keys, NEW m, IsLast(m, keys \ {x})
  PROVE  \E n : IsLast(n, keys)
  <1>1. m \in Seq(Byte) /\ x \in Seq(Byte) /\ m # x /\ m \in keys
    BY DEF IsLast
  <1>2. CASE KeyBefore(x, m)
    <2>1. IsLast(m, keys)
      BY <1>1, <1>2 DEF IsLast
    <2>2. QED
      BY <2>1
  <1>3. CASE KeyBefore(m, x)
    <2>1. ASSUME NEW k \in keys \ {x} PROVE KeyBefore(k, x)
      <3>1. k \in Seq(Byte)
        OBVIOUS
      <3>2. CASE k = m
        BY <1>3, <3>2
      <3>3. CASE k # m
        <4>1. KeyBefore(k, m)
          BY <3>3 DEF IsLast
        <4>2. QED
          BY <1>1, <1>3, <3>1, <4>1, KeyTransitive
      <3>4. QED
        BY <3>2, <3>3
    <2>2. IsLast(x, keys)
      BY <2>1 DEF IsLast
    <2>3. QED
      BY <2>2
  <1>4. QED
    BY <1>1, <1>2, <1>3, KeyTotal

LEMMA LastKey ==
  ASSUME NEW keys \in SUBSET Seq(Byte), IsFiniteSet(keys), keys # {}
  PROVE  \E m : IsLast(m, keys)
  <1> DEFINE None(S) == S \in SUBSET keys /\ S # {} /\ ~ \E m : IsLast(m, S)
             Bad == {n \in Nat : \E S \in SUBSET keys : None(S) /\ Cardinality(S) = n}
  <1>1. Bad = {}
    <2> SUFFICES ASSUME Bad # {} PROVE FALSE
      OBVIOUS
    <2>1. PICK n \in Bad : \A j \in Bad : n <= j
      <3> Bad \in SUBSET Nat
        OBVIOUS
      <3> HIDE DEF Bad
      <3> QED
        BY LeastNatural
    <2>2. PICK S \in SUBSET keys : None(S) /\ Cardinality(S) = n
      OBVIOUS
    <2>3. PICK x \in S : TRUE
      BY <2>2
    <2> DEFINE T == S \ {x}
    <2>4. IsFiniteSet(S) /\ Cardinality(T) = n - 1 /\ Cardinality(T) \in Nat
      <3>1. IsFiniteSet(S)
        BY FS_Subset
      <3>2. IsFiniteSet(T) /\ Cardinality(T) = Cardinality(S) - 1
        BY <3>1, FS_RemoveElement
      <3>3. Cardinality(T) \in Nat
        BY <3>2, FS_CardinalityType
      <3>4. QED
        BY <2>2, <3>1, <3>2, <3>3
    <2>5. Cardinality(T) \notin Bad
      <3>1. n \in Nat
        OBVIOUS
      <3> HIDE DEF Bad, T
      <3>2. QED
        BY <2>1, <2>4, <3>1
    <2>6. ~None(T)
      BY <2>4, <2>5
    <2>7. CASE T = {}
      <3>1. IsLast(x, S)
        BY <2>7 DEF IsLast
      <3>2. QED
        BY <2>2, <3>1
    <2>8. CASE T # {}
      <3>1. PICK m : IsLast(m, T)
        BY <2>6, <2>8
      <3>2. S \in SUBSET Seq(Byte)
        OBVIOUS
      <3>3. \E k : IsLast(k, S)
        BY <3>1, <3>2, OneMoreKey
      <3>4. QED
        BY <2>2, <3>3
    <2>9. QED
      BY <2>7, <2>8
  <1>2. ~None(keys)
    <2>1. Cardinality(keys) \in Nat
      BY FS_CardinalityType
    <2>2. Cardinality(keys) \notin Bad
      BY <1>1
    <2> HIDE DEF None
    <2>3. QED
      BY <2>1, <2>2
  <1>3. QED
    BY <1>2

\* s has the keys in their order.
InOrder(s, keys) ==
  /\ s \in [1 .. Cardinality(keys) -> keys]
  /\ \A i, j \in DOMAIN s : i < j => KeyBefore(s[i], s[j])

\* Keys can be put in order one by one, from the last one down.
LEMMA InOrderNext ==
  ASSUME NEW keys \in SUBSET Seq(Byte), IsFiniteSet(keys), NEW m, IsLast(m, keys),
         NEW s, InOrder(s, keys \ {m})
  PROVE  \E t : InOrder(t, keys)
  <1> DEFINE n == Cardinality(keys)
             t == [i \in 1 .. n |-> IF i = n THEN m ELSE s[i]]
  <1>1. n \in Nat /\ n # 0 /\ Cardinality(keys \ {m}) = n - 1 /\ m \in keys
    <2>1. m \in keys
      BY DEF IsLast
    <2>2. Cardinality(keys \ {m}) = n - 1 /\ IsFiniteSet(keys \ {m})
      BY <2>1, FS_RemoveElement
    <2>3. n \in Nat /\ Cardinality(keys \ {m}) \in Nat
      BY <2>2, FS_CardinalityType
    <2> HIDE DEF n
    <2>4. QED
      BY <2>1, <2>2, <2>3
  <1> HIDE DEF n
  <1>2. /\ s \in [1 .. n - 1 -> keys \ {m}]
        /\ \A i, j \in 1 .. n - 1 : i < j => KeyBefore(s[i], s[j])
    BY <1>1 DEF InOrder
  <1>3. t \in [1 .. n -> keys] /\ DOMAIN t = 1 .. n
    <2>1. ASSUME NEW i \in 1 .. n PROVE (IF i = n THEN m ELSE s[i]) \in keys
      BY <1>1, <1>2
    <2>2. QED
      BY <2>1
  <1>4. ASSUME NEW i \in 1 .. n, NEW j \in 1 .. n, i < j
        PROVE  KeyBefore(t[i], t[j])
    <2>1. i \in 1 .. n - 1 /\ t[i] = s[i]
      BY <1>1, <1>4
    <2>2. CASE j = n
      <3>1. t[j] = m /\ s[i] \in keys \ {m}
        BY <1>2, <2>1, <2>2
      <3>2. QED
        BY <2>1, <3>1 DEF IsLast
    <2>3. CASE j # n
      <3>1. j \in 1 .. n - 1 /\ t[j] = s[j]
        BY <1>1, <2>3
      <3>2. QED
        BY <1>2, <1>4, <2>1, <3>1
    <2>4. QED
      BY <2>2, <2>3
  <1> HIDE DEF t
  <1>5. InOrder(t, keys)
    BY <1>3, <1>4 DEF InOrder, n
  <1>6. QED
    BY <1>5

LEMMA OrderExists ==
  ASSUME NEW keys \in SUBSET Seq(Byte), IsFiniteSet(keys)
  PROVE  \E s : InOrder(s, keys)
  <1> DEFINE None(S) == S \in SUBSET keys /\ ~ \E s : InOrder(s, S)
             Bad == {n \in Nat : \E S \in SUBSET keys : None(S) /\ Cardinality(S) = n}
  <1>1. Bad = {}
    <2> SUFFICES ASSUME Bad # {} PROVE FALSE
      OBVIOUS
    <2>1. PICK n \in Bad : \A j \in Bad : n <= j
      <3> Bad \in SUBSET Nat
        OBVIOUS
      <3> HIDE DEF Bad
      <3> QED
        BY LeastNatural
    <2>2. PICK S \in SUBSET keys : None(S) /\ Cardinality(S) = n
      OBVIOUS
    <2>3. IsFiniteSet(S)
      BY FS_Subset
    <2>4. CASE S = {}
      <3>1. Cardinality(S) = 0
        BY <2>4, FS_EmptySet
      <3> DEFINE s == [i \in 1 .. 0 |-> i]
      <3>2. s \in [1 .. 0 -> {}] /\ \A i, j \in DOMAIN s : i < j => KeyBefore(s[i], s[j])
        OBVIOUS
      <3> HIDE DEF s
      <3>3. InOrder(s, S)
        BY <2>4, <3>1, <3>2 DEF InOrder
      <3>4. QED
        BY <2>2, <3>3
    <2>5. CASE S # {}
      <3>1. S \in SUBSET Seq(Byte)
        OBVIOUS
      <3>2. PICK m : IsLast(m, S)
        BY <2>3, <2>5, <3>1, LastKey
      <3> DEFINE T == S \ {m}
      <3>3. m \in S
        BY <3>2 DEF IsLast
      <3>4. Cardinality(T) = n - 1 /\ Cardinality(T) \in Nat
        <4>1. IsFiniteSet(T) /\ Cardinality(T) = Cardinality(S) - 1
          BY <2>3, <3>3, FS_RemoveElement
        <4>2. QED
          BY <2>2, <4>1, FS_CardinalityType
      <3>5. Cardinality(T) \notin Bad
        <4>1. n \in Nat
          OBVIOUS
        <4> HIDE DEF Bad, T
        <4>2. QED
          BY <2>1, <3>4, <4>1
      <3>6. PICK s : InOrder(s, T)
        BY <3>4, <3>5
      <3>7. \E t : InOrder(t, S)
        BY <2>3, <3>1, <3>2, <3>6, InOrderNext
      <3>8. QED
        BY <2>2, <3>7
    <2>6. QED
      BY <2>4, <2>5
  <1>2. ~None(keys)
    <2>1. Cardinality(keys) \in Nat
      BY FS_CardinalityType
    <2>2. Cardinality(keys) \notin Bad
      BY <1>1
    <2> HIDE DEF None
    <2>3. QED
      BY <2>1, <2>2
  <1>3. QED
    BY <1>2

\* The order of std::map is one: encode() writes the keys of a dict, each of
\* them once, in increasing order.
THEOREM KeysAreSorted ==
  ASSUME NEW keys \in SUBSET Seq(Byte), IsFiniteSet(keys)
  PROVE  /\ SortedKeys(keys) \in [1 .. Cardinality(keys) -> keys]
         /\ \A i, j \in DOMAIN SortedKeys(keys) :
              i < j => KeyBefore(SortedKeys(keys)[i], SortedKeys(keys)[j])
  <1>1. \E t \in [1 .. Cardinality(keys) -> keys] :
          \A i, j \in DOMAIN t : i < j => KeyBefore(t[i], t[j])
    BY OrderExists DEF InOrder
  <1>2. QED
    BY <1>1 DEF SortedKeys

\* SortedKeys has each key.
LEMMA SortedKeysFacts ==
  ASSUME NEW keys \in SUBSET Seq(Byte), IsFiniteSet(keys)
  PROVE  /\ SortedKeys(keys) \in Seq(keys)
         /\ \A k \in keys : \E i \in 1 .. Len(SortedKeys(keys)) : SortedKeys(keys)[i] = k
  <1> DEFINE s == SortedKeys(keys)
             n == Cardinality(keys)
  <1>1. InOrder(s, keys)
    BY KeysAreSorted DEF InOrder
  <1>2. n \in Nat
    BY FS_CardinalityType
  <1> HIDE DEF s
  <1>3. /\ s \in [1 .. n -> keys]
        /\ \A i, j \in 1 .. n : i < j => KeyBefore(s[i], s[j])
    BY <1>1 DEF InOrder
  <1>4. s \in Seq(keys) /\ Len(s) = n
    <2> HIDE DEF n
    <2> QED
      BY <1>2, <1>3
  <1>5. ASSUME NEW k \in keys, \A i \in 1 .. n : s[i] # k
        PROVE  FALSE
    <2> DEFINE T == keys \ {k}
    <2>1. s \in [1 .. n -> T]
      BY <1>3, <1>5
    <2>2. IsFiniteSet(T) /\ Cardinality(T) = n - 1
      BY FS_RemoveElement
    <2>3. IsFiniteSet(1 .. n) /\ Cardinality(1 .. n) = n
      <3> HIDE DEF n
      <3> QED
        BY <1>2, FS_Interval
    <2>4. Cardinality(T) < Cardinality(1 .. n)
      <3> HIDE DEF n, T
      <3> QED
        BY <1>2, <2>2, <2>3
    <2>5. PICK i \in 1 .. n, j \in 1 .. n : i # j /\ s[i] = s[j]
      <3> HIDE DEF n, T
      <3> QED
        BY <2>1, <2>2, <2>3, <2>4, FS_PigeonHole
    <2>6. KeyBefore(s[i], s[i])
      <3> HIDE DEF n
      <3>1. i < j \/ j < i
        BY <1>2, <2>5
      <3>2. QED
        BY <1>3, <2>5, <3>1
    <2>7. s[i] \in Seq(Byte)
      BY <1>3
    <2>8. QED
      BY <2>6, <2>7, KeyIrreflexive
  <1>6. QED
    BY <1>4, <1>5 DEF s

-----------------------------------------------------------------------------
(* Containers and their encoding *)

Container(w) == w.type \in {"list", "dict"}

\* The elements of a container in the order encode() writes them, what it
\* writes in front of each, and the byte it starts with.
Count(w) == IF w.type = "list" THEN Len(w.items) ELSE Len(KeysOf(w))
Item(w, j) == IF w.type = "list" THEN w.items[j] ELSE w.map[KeysOf(w)[j]]
KeyText(w, j) == IF w.type = "list" THEN << >> ELSE EncodeString(KeysOf(w)[j])
Mark(w) == IF w.type = "list" THEN "l" ELSE "d"

\* What f says of the elements.
PartsOf(f, w) == [j \in 1 .. Count(w) |-> KeyText(w, j) \o f[Item(w, j)]]

\* A value is a number, a string or a container.
LEMMA Variants ==
  ASSUME NEW w \in Values
  PROVE  /\ w.type = "int" => w = Integer(w.int) /\ w.int \in Int /\ InRange(w.int)
         /\ w.type = "string" => w = String(w.string) /\ w.string \in Seq(Byte)
         /\ w.type = "list" => w = List(w.items) /\ w.items \in Seq(Values)
         /\ w.type = "dict" =>
              /\ w = Dict(w.map) /\ w.map \in [DOMAIN w.map -> Values]
              /\ DOMAIN w.map \in SUBSET Seq(Byte) /\ IsFiniteSet(DOMAIN w.map)
         /\ w.type \in {"int", "string"} \/ Container(w)
  BY ValuesAssumption, ParserAssumption DEF Container

\* The elements of a list, and of a dict in the order of its keys.
LEMMA ListFacts ==
  ASSUME NEW w \in Values, w.type = "list"
  PROVE  /\ Count(w) = Len(w.items) /\ Len(w.items) \in Nat /\ DOMAIN w.items = 1 .. Len(w.items)
         /\ \A j \in 1 .. Count(w) : Item(w, j) = w.items[j] /\ w.items[j] \in Values
         /\ Elements(w) = {w.items[j] : j \in 1 .. Len(w.items)}
  <1>1. w.items \in Seq(Values)
    BY Variants
  <1>2. Len(w.items) \in Nat /\ DOMAIN w.items = 1 .. Len(w.items)
    BY <1>1
  <1>3. Elements(w) = {w.items[j] : j \in DOMAIN w.items}
    BY Zenon DEF Elements
  <1>4. QED
    BY <1>1, <1>2, <1>3 DEF Count, Item

LEMMA DictFacts ==
  ASSUME NEW w \in Values, w.type = "dict"
  PROVE  /\ Count(w) = Len(KeysOf(w)) /\ Len(KeysOf(w)) \in Nat
         /\ DOMAIN KeysOf(w) = 1 .. Len(KeysOf(w))
         /\ \A j \in 1 .. Count(w) :
              /\ KeysOf(w)[j] \in DOMAIN w.map /\ KeysOf(w)[j] \in Seq(Byte)
              /\ Item(w, j) = w.map[KeysOf(w)[j]] /\ w.map[KeysOf(w)[j]] \in Values
         /\ \A k \in DOMAIN w.map : \E j \in 1 .. Count(w) : KeysOf(w)[j] = k
         /\ Elements(w) = {w.map[k] : k \in DOMAIN w.map}
  <1> DEFINE D == DOMAIN w.map
  <1>1. w.map \in [D -> Values] /\ D \in SUBSET Seq(Byte) /\ IsFiniteSet(D)
    BY Variants
  <1>2. KeysOf(w) \in Seq(D) /\ \A k \in D : \E i \in 1 .. Len(KeysOf(w)) : KeysOf(w)[i] = k
    <2> HIDE DEF D
    <2>1. /\ SortedKeys(D) \in Seq(D)
          /\ \A k \in D : \E i \in 1 .. Len(SortedKeys(D)) : SortedKeys(D)[i] = k
      BY <1>1, SortedKeysFacts
    <2>2. QED
      BY <2>1 DEF KeysOf, D
  <1>3. w.type # "list" /\ w.type = "dict"
    OBVIOUS
  <1>4. Elements(w) = {w.map[k] : k \in DOMAIN w.map}
    BY <1>3, Zenon DEF Elements
  <1>5. Count(w) = Len(KeysOf(w)) /\ \A j : Item(w, j) = w.map[KeysOf(w)[j]]
    BY <1>3, Zenon DEF Count, Item
  <1> HIDE DEF D
  <1>6. /\ Len(KeysOf(w)) \in Nat /\ DOMAIN KeysOf(w) = 1 .. Len(KeysOf(w))
        /\ \A j \in 1 .. Len(KeysOf(w)) : KeysOf(w)[j] \in D
    BY <1>2
  <1>7. \A j \in 1 .. Len(KeysOf(w)) : KeysOf(w)[j] \in Seq(Byte) /\ w.map[KeysOf(w)[j]] \in Values
    BY <1>1, <1>6
  <1>8. QED
    BY <1>2, <1>4, <1>5, <1>6, <1>7 DEF D

\* Elements and keys of either container.
LEMMA ContainerFacts ==
  ASSUME NEW w \in Values, Container(w)
  PROVE  /\ Count(w) \in Nat
         /\ \A j \in 1 .. Count(w) :
              Item(w, j) \in Values /\ Item(w, j) \in Elements(w) /\ KeyText(w, j) \in Seq(Byte)
         /\ \A e \in Elements(w) : \E j \in 1 .. Count(w) : Item(w, j) = e
  <1>1. CASE w.type = "list"
    <2>1. << >> \in Seq(Byte)
      OBVIOUS
    <2>2. \A j : KeyText(w, j) = << >>
      BY <1>1, Zenon DEF KeyText
    <2>3. ASSUME NEW e \in Elements(w) PROVE \E j \in 1 .. Count(w) : Item(w, j) = e
      BY <1>1, ListFacts
    <2>4. \A j \in 1 .. Count(w) : Item(w, j) \in Values /\ Item(w, j) \in Elements(w)
      BY <1>1, ListFacts
    <2>5. Count(w) \in Nat
      BY <1>1, ListFacts
    <2>6. QED
      BY <2>1, <2>2, <2>3, <2>4, <2>5
  <1>2. CASE w.type = "dict"
    <2>1. \A j : KeyText(w, j) = EncodeString(KeysOf(w)[j])
      BY <1>2 DEF KeyText
    <2>2. \A j \in 1 .. Count(w) : KeyText(w, j) \in Seq(Byte)
      BY <1>2, <2>1, DictFacts, EncodeStringFacts
    <2>3. ASSUME NEW e \in Elements(w) PROVE \E j \in 1 .. Count(w) : Item(w, j) = e
      <3>1. PICK k \in DOMAIN w.map : e = w.map[k]
        BY <1>2, DictFacts
      <3>2. PICK j \in 1 .. Count(w) : KeysOf(w)[j] = k
        BY <1>2, DictFacts
      <3>3. QED
        BY <1>2, <3>1, <3>2, DictFacts
    <2>4. \A j \in 1 .. Count(w) : Item(w, j) \in Values /\ Item(w, j) \in Elements(w)
      BY <1>2, DictFacts
    <2>5. Count(w) \in Nat
      BY <1>2, DictFacts
    <2>6. QED
      BY <2>2, <2>3, <2>4, <2>5
  <1>3. QED
    BY <1>1, <1>2 DEF Container

\* The recursion of encode() has the form of Recursion: its rule is BodyIs.
LEMMA PartsType ==
  ASSUME NEW w \in Values, Container(w), NEW f,
         \A e \in Elements(w) : f[e] \in Seq(Byte)
  PROVE  PartsOf(f, w) \in Seq(Seq(Byte)) /\ Len(PartsOf(f, w)) = Count(w)
  <1> DEFINE n == Count(w)
             part(j) == KeyText(w, j) \o f[Item(w, j)]
  <1>1. n \in Nat
    BY ContainerFacts
  <1>2. ASSUME NEW j \in 1 .. n PROVE part(j) \in Seq(Byte)
    <2>1. KeyText(w, j) \in Seq(Byte) /\ f[Item(w, j)] \in Seq(Byte)
      BY ContainerFacts
    <2>2. QED
      BY <2>1, ConcatProperties
  <1>3. PartsOf(f, w) = [j \in 1 .. n |-> part(j)]
    BY Zenon DEF PartsOf
  <1> DEFINE Q == Seq(Byte)
  <1> HIDE DEF n, part, Q
  <1>4. \A j \in 1 .. n : part(j) \in Q
    BY <1>2 DEF Q
  <1>5. [j \in 1 .. n |-> part(j)] \in Seq(Q) /\ Len([j \in 1 .. n |-> part(j)]) = n
    BY <1>1, <1>4
  <1>6. QED
    BY <1>3, <1>5 DEF Q, n

\* encode() of w, where f is encode() of the elements.
Body(f, w) ==
  IF w.type = "int" THEN <<"i">> \o ToText(w.int) \o <<"e">>
  ELSE IF w.type = "string" THEN EncodeString(w.string)
  ELSE IF w.type = "list"
       THEN <<"l">> \o FlattenSeq([i \in DOMAIN w.items |-> f[w.items[i]]]) \o <<"e">>
       ELSE <<"d">> \o FlattenSeq([i \in DOMAIN KeysOf(w) |->
                         EncodeString(KeysOf(w)[i]) \o f[w.map[KeysOf(w)[i]]]])
              \o <<"e">>

LEMMA BodyIs ==
  ASSUME NEW w \in Values, NEW f, \A e \in Elements(w) : f[e] \in Seq(Byte)
  PROVE  /\ w.type = "int" => Body(f, w) = <<"i">> \o ToText(w.int) \o <<"e">>
         /\ w.type = "string" => Body(f, w) = EncodeString(w.string)
         /\ Container(w) => Body(f, w) = <<Mark(w)>> \o FlattenSeq(PartsOf(f, w)) \o <<"e">>
  <1>1. CASE w.type = "int"
    BY <1>1, Zenon DEF Body, Container
  <1>2. CASE w.type = "string"
    BY <1>2, Zenon DEF Body, Container
  <1>3. CASE w.type = "list"
    <2>1. Body(f, w) = <<"l">> \o FlattenSeq([i \in DOMAIN w.items |-> f[w.items[i]]]) \o <<"e">>
      BY <1>3, Zenon DEF Body
    <2>2. \A j \in 1 .. Count(w) : KeyText(w, j) \o f[Item(w, j)] = f[w.items[j]]
      <3> TAKE j \in 1 .. Count(w)
      <3>1. f[w.items[j]] \in Seq(Byte) /\ Item(w, j) = w.items[j]
        BY <1>3, ListFacts
      <3>2. << >> \o f[w.items[j]] = f[w.items[j]]
        BY <3>1, ConcatEmptySeq
      <3>3. KeyText(w, j) = << >>
        BY <1>3 DEF KeyText
      <3>4. QED
        BY <3>1, <3>2, <3>3, Zenon
    <2>3. DOMAIN w.items = 1 .. Count(w)
      BY <1>3, ListFacts
    <2>4. PartsOf(f, w) = [i \in DOMAIN w.items |-> f[w.items[i]]]
      BY <2>2, <2>3, Zenon DEF PartsOf
    <2>5. Mark(w) = "l" /\ w.type # "int" /\ w.type # "string"
      BY <1>3 DEF Mark
    <2>6. QED
      BY <2>1, <2>4, <2>5, Zenon
  <1>4. CASE w.type = "dict"
    <2> DEFINE parts == [i \in DOMAIN KeysOf(w) |-> EncodeString(KeysOf(w)[i]) \o f[w.map[KeysOf(w)[i]]]]
    <2>1. Body(f, w) = <<"d">> \o FlattenSeq(parts) \o <<"e">>
      BY <1>4, Zenon DEF Body
    <2>2. \A j \in 1 .. Count(w) :
            KeyText(w, j) \o f[Item(w, j)] = EncodeString(KeysOf(w)[j]) \o f[w.map[KeysOf(w)[j]]]
      BY <1>4 DEF KeyText, Item
    <2>3. DOMAIN KeysOf(w) = 1 .. Count(w)
      BY <1>4, DictFacts
    <2>4. PartsOf(f, w) = parts
      BY <2>2, <2>3, Zenon DEF PartsOf
    <2>5. Mark(w) = "d" /\ w.type # "int" /\ w.type # "string"
      BY <1>4 DEF Mark
    <2> HIDE DEF parts
    <2>6. QED
      BY <2>1, <2>4, <2>5, Zenon
  <1>5. QED
    BY <1>1, <1>2, <1>3, <1>4, Variants DEF Container

LEMMA BodyType ==
  ASSUME NEW w \in Values, NEW f, \A e \in Elements(w) : f[e] \in Seq(Byte)
  PROVE  Body(f, w) \in Seq(Byte)
  <1>1. \A c \in Byte : <<c>> \in Seq(Byte)
    OBVIOUS
  <1>2. CASE w.type = "int"
    <2>1. ToText(w.int) \in Seq(Byte)
      BY <1>2, Variants, ToTextFacts
    <2>2. <<"i">> \in Seq(Byte) /\ <<"e">> \in Seq(Byte)
      BY <1>1, SyntaxBytes
    <2>3. <<"i">> \o ToText(w.int) \o <<"e">> \in Seq(Byte)
      BY <2>1, <2>2, ConcatProperties
    <2>4. QED
      BY <1>2, <2>3, BodyIs
  <1>3. CASE w.type = "string"
    BY <1>3, Variants, EncodeStringFacts, BodyIs
  <1>4. CASE Container(w)
    <2>1. PartsOf(f, w) \in Seq(Seq(Byte))
      BY <1>4, PartsType
    <2>2. FlattenSeq(PartsOf(f, w)) \in Seq(Byte)
      BY <2>1, FlattenType
    <2>3. Mark(w) \in Byte /\ "e" \in Byte
      BY SyntaxBytes DEF Mark
    <2>4. <<Mark(w)>> \in Seq(Byte) /\ <<"e">> \in Seq(Byte)
      BY <1>1, <2>3
    <2>5. <<Mark(w)>> \o FlattenSeq(PartsOf(f, w)) \o <<"e">> \in Seq(Byte)
      BY <2>2, <2>4, ConcatProperties
    <2>6. QED
      BY <1>4, <2>5, BodyIs
  <1>5. QED
    BY <1>2, <1>3, <1>4, Variants

\* encode() of w depends on encode() of its elements alone.
LEMMA BodyAgrees ==
  ASSUME NEW w \in Values, NEW f \in [Values -> Seq(Byte)], NEW g \in [Values -> Seq(Byte)],
         \A e \in Elements(w) : f[e] = g[e]
  PROVE  Body(f, w) = Body(g, w)
  <1>1. Elements(w) \subseteq Values
    <2>1. CASE Container(w)
      BY <2>1, ContainerFacts
    <2>2. CASE w.type \in {"int", "string"}
      BY <2>2 DEF Elements
    <2>3. QED
      BY <2>1, <2>2, Variants
  <1>2. /\ \A e \in Elements(w) : f[e] \in Seq(Byte)
        /\ \A e \in Elements(w) : g[e] \in Seq(Byte)
    BY <1>1
  <1>3. CASE Container(w)
    <2>1. \A j \in 1 .. Count(w) : f[Item(w, j)] = g[Item(w, j)]
      BY <1>3, ContainerFacts
    <2>2. PartsOf(f, w) = PartsOf(g, w)
      BY <2>1, Zenon DEF PartsOf
    <2>3. QED
      BY <1>2, <1>3, <2>2, BodyIs
  <1>4. CASE w.type \in {"int", "string"}
    BY <1>2, <1>4, BodyIs
  <1>5. QED
    BY <1>3, <1>4, Variants

\* What encode() does, as a function.
LEMMA EncodeIs ==
  \A w \in Values : Encode[w] \in Seq(Byte) /\ Encode[w] = Body(Encode, w)
  <1> DEFINE R == Seq(Byte)
             G == [w \in Values |-> [f \in [Values -> R] |-> Body(f, w)]]
  <1>0. \A w \in Values : Elements(w) \subseteq Values
    <2> TAKE w \in Values
    <2>1. CASE Container(w)
      BY <2>1, ContainerFacts
    <2>2. CASE w.type \in {"int", "string"}
      BY <2>2 DEF Elements
    <2>3. QED
      BY <2>1, <2>2, Variants
  <1>1. ASSUME NEW w \in Values, NEW f \in [Values -> R]
        PROVE  Body(f, w) \in R
    BY <1>0, BodyType
  <1>2. G \in [Values -> [[Values -> R] -> R]]
    <2> HIDE DEF R
    <2> QED
      BY <1>1
  <1>3. \A w \in Values : \A f \in [Values -> R] : G[w][f] = Body(f, w)
    <2> HIDE DEF R
    <2> QED
      OBVIOUS
  <1>4. LooksDown(Values, R, G, Depth)
    <2>1. ASSUME NEW w \in Values, NEW f \in [Values -> R], NEW g \in [Values -> R],
                 \A e \in Values : Depth[e] < Depth[w] => f[e] = g[e]
          PROVE  G[w][f] = G[w][g]
      <3>1. \A e \in Elements(w) : f[e] = g[e]
        BY <1>0, <2>1, DepthAssumption
      <3>2. Body(f, w) = Body(g, w)
        BY <3>1, BodyAgrees
      <3> HIDE DEF G, R
      <3>3. QED
        BY <1>3, <3>2
    <2> HIDE DEF G, R
    <2>2. QED
      BY <2>1 DEF LooksDown
  <1>5. R # {} /\ Depth \in [Values -> Nat]
    <2>1. << >> \in R
      OBVIOUS
    <2> HIDE DEF R
    <2>2. QED
      BY <2>1, DepthAssumption
  <1>6. PICK f \in [Values -> R] : Solves(f, Values, G)
    <2> HIDE DEF G, R
    <2> QED
      BY <1>2, <1>4, <1>5, Recursion
  <1>7. f = [w \in Values |-> Body(f, w)]
    <2>1. f = [w \in Values |-> G[w][f]]
      BY <1>6 DEF Solves
    <2> HIDE DEF G, R
    <2>2. [w \in Values |-> G[w][f]] = [w \in Values |-> Body(f, w)]
      BY <1>3, Zenon
    <2>3. QED
      BY <2>1, <2>2, Zenon
  <1>8. Encode = [w \in Values |-> Body(Encode, w)]
    <2>1. Encode = CHOOSE g : g = [w \in Values |-> Body(g, w)]
      BY Zenon DEF Encode, Body
    <2>2. QED
      BY <1>7, <2>1, Zenon
  <1>9. \A w \in Values : Encode[w] = Body(Encode, w)
    BY <1>8, Zenon
  <1>10. ASSUME NEW w \in Values PROVE Encode[w] \in R
    <2> DEFINE Bad == {n \in Nat : \E u \in Values : Depth[u] = n /\ Encode[u] \notin R}
    <2>1. SUFFICES ASSUME Encode[w] \notin R PROVE FALSE
      OBVIOUS
    <2>2. Depth[w] \in Bad
      BY <2>1, DepthAssumption
    <2>3. PICK n \in Bad : \A m \in Bad : n <= m
      <3> Bad \in SUBSET Nat
        OBVIOUS
      <3> HIDE DEF Bad
      <3> QED
        BY <2>2, LeastNatural
    <2>4. n \in Nat
      OBVIOUS
    <2>5. PICK u \in Values : Depth[u] = n /\ Encode[u] \notin R
      BY <2>3
    <2>6. ASSUME NEW e \in Elements(u) PROVE Encode[e] \in R
      <3>1. e \in Values /\ Depth[e] \in Nat /\ Depth[e] < n
        BY <1>0, <2>5, DepthAssumption
      <3>2. Depth[e] \notin Bad
        <4> HIDE DEF Bad
        <4> QED
          BY <2>3, <2>4, <3>1
      <3>3. QED
        BY <3>1, <3>2
    <2>7. Body(Encode, u) \in R
      BY <2>5, <2>6, BodyType
    <2>8. QED
      BY <1>9, <2>5, <2>7
  <1>11. QED
    BY <1>9, <1>10

-----------------------------------------------------------------------------
(* Where the parts of a container stand *)

Parts(w) == PartsOf(Encode, w)

\* How far behind the start of a container part k + 1 stands.
Offset(w, k) == 1 + Len(FlattenFirst(Parts(w), k))

\* What encode() writes of a value is a text.
LEMMA ElementsAreValues ==
  ASSUME NEW w \in Values
  PROVE  \A e \in Elements(w) : e \in Values /\ Encode[e] \in Seq(Byte)
  <1>1. Elements(w) \subseteq Values
    <2>1. CASE Container(w)
      BY <2>1, ContainerFacts
    <2>2. CASE w.type \in {"int", "string"}
      BY <2>2 DEF Elements
    <2>3. QED
      BY <2>1, <2>2, Variants
  <1>2. QED
    BY <1>1, EncodeIs

\* The recursion of encode(), resolved.
LEMMA EncodeFacts ==
  ASSUME NEW w \in Values
  PROVE  /\ Encode[w] \in Seq(Byte) /\ Len(Encode[w]) \in Nat
         /\ w.type = "int" => Encode[w] = <<"i">> \o ToText(w.int) \o <<"e">>
         /\ w.type = "string" => Encode[w] = EncodeString(w.string)
         /\ Container(w) => Encode[w] = <<Mark(w)>> \o FlattenSeq(Parts(w)) \o <<"e">>
  <1>1. Encode[w] \in Seq(Byte) /\ Encode[w] = Body(Encode, w)
    BY EncodeIs
  <1>2. \A e \in Elements(w) : Encode[e] \in Seq(Byte)
    BY ElementsAreValues
  <1>3. Len(Encode[w]) \in Nat
    BY <1>1
  <1>4. QED
    BY <1>1, <1>2, <1>3, BodyIs DEF Parts

\* The text of each element, with its key in front of it in a dict.
LEMMA PartsFacts ==
  ASSUME NEW w \in Values, Container(w)
  PROVE  /\ Parts(w) \in Seq(Seq(Byte)) /\ Len(Parts(w)) = Count(w) /\ Count(w) \in Nat
         /\ \A j \in 1 .. Count(w) :
              /\ Parts(w)[j] = KeyText(w, j) \o Encode[Item(w, j)]
              /\ KeyText(w, j) \in Seq(Byte)
              /\ Item(w, j) \in Values /\ Encode[Item(w, j)] \in Seq(Byte)
  <1>1. \A e \in Elements(w) : Encode[e] \in Seq(Byte)
    BY ElementsAreValues
  <1>2. Parts(w) \in Seq(Seq(Byte)) /\ Len(Parts(w)) = Count(w) /\ Count(w) \in Nat
    BY <1>1, PartsType, ContainerFacts DEF Parts
  <1>3. \A j \in 1 .. Count(w) :
           Item(w, j) \in Values /\ KeyText(w, j) \in Seq(Byte) /\ Encode[Item(w, j)] \in Seq(Byte)
    BY <1>1, ContainerFacts
  <1>4. \A j \in 1 .. Count(w) : Parts(w)[j] = KeyText(w, j) \o Encode[Item(w, j)]
    BY Zenon DEF Parts, PartsOf
  <1>5. QED
    BY <1>2, <1>3, <1>4

LEMMA ConcatFirst ==
  ASSUME NEW S, NEW s \in Seq(S), NEW t \in Seq(S), Len(s) # 0, NEW u, u = s \o t
  PROVE  u \in Seq(S) /\ Len(u) = Len(s) + Len(t) /\ u[1] = s[1] /\ Len(t) \in Nat
  OBVIOUS

\* The bytes of a container: its mark, its parts and the "e".
Inner(w) == FlattenSeq(Parts(w))
Marked(w) == <<Mark(w)>> \o Inner(w)
End == <<"e">>

LEMMA ContainerText ==
  ASSUME NEW w \in Values, Container(w)
  PROVE  /\ Inner(w) \in Seq(Byte) /\ End \in Seq(Byte) /\ <<Mark(w)>> \in Seq(Byte)
         /\ Marked(w) \in Seq(Byte) /\ Len(Marked(w)) = 1 + Len(Inner(w))
         /\ Encode[w] = Marked(w) \o End /\ Len(Encode[w]) = Len(Inner(w)) + 2
         /\ Encode[w][1] = Mark(w)
  <1> DEFINE m == <<Mark(w)>>
             text == Inner(w)
             marked == Marked(w)
             e == End
  <1>1. Mark(w) \in Byte /\ "e" \in Byte
    BY SyntaxBytes DEF Mark
  <1>2. m \in Seq(Byte) /\ Len(m) = 1 /\ m[1] = Mark(w) /\ e \in Seq(Byte) /\ Len(e) = 1
    BY <1>1 DEF End
  <1>3. text \in Seq(Byte)
    BY PartsFacts, FlattenType DEF Inner
  <1> DEFINE whole == Encode[w]
  <1>4. whole = marked \o e /\ marked = m \o text
    BY EncodeFacts, Zenon DEF Marked, Inner, End
  <1> HIDE DEF whole, m, text, marked, e
  <1>5. /\ marked \in Seq(Byte) /\ Len(marked) = Len(m) + Len(text) /\ marked[1] = m[1]
        /\ Len(text) \in Nat
    <2>1. Len(m) # 0
      BY <1>2
    <2>2. marked = m \o text
      BY <1>4
    <2>3. m \in Seq(Byte) /\ text \in Seq(Byte)
      BY <1>2, <1>3
    <2>4. marked \in Seq(Byte) /\ Len(marked) = Len(m) + Len(text)
      BY <2>1, <2>2, <2>3, ConcatFirst
    <2>5. marked[1] = m[1]
      BY <2>1, <2>2, <2>3, ConcatFirst
    <2>6. Len(text) \in Nat
      BY <2>3
    <2>7. QED
      BY <2>4, <2>5, <2>6
  <1>6. Len(whole) = Len(marked) + Len(e) /\ whole[1] = marked[1]
    <2>1. Len(marked) # 0
      BY <1>2, <1>5
    <2>2. QED
      BY <1>2, <1>4, <1>5, <2>1, ConcatFirst
  <1>7. QED
    BY <1>2, <1>3, <1>4, <1>5, <1>6 DEF whole, m, text, marked, e

\* A value is recognised by the first byte of its encoding.
LEMMA FirstByte ==
  ASSUME NEW w \in Values
  PROVE  /\ Len(Encode[w]) >= 2
         /\ w.type = "int" => Encode[w][1] = "i"
         /\ w.type = "string" => IsDigit(Encode[w][1])
         /\ w.type = "list" => Encode[w][1] = "l"
         /\ w.type = "dict" => Encode[w][1] = "d"
  <1>1. CASE w.type = "int"
    <2> DEFINE x == ToText(w.int)
    <2>1. x \in Seq(Byte) /\ Len(x) >= 1
      BY <1>1, Variants, ToTextFacts
    <2> HIDE DEF x
    <2>2. <<"i">> \in Seq(Byte) /\ <<"e">> \in Seq(Byte)
      BY SyntaxBytes
    <2>3. Len(<<"i">> \o x \o <<"e">>) >= 2 /\ (<<"i">> \o x \o <<"e">>)[1] = "i"
      BY <2>1, <2>2
    <2>4. Encode[w] = <<"i">> \o x \o <<"e">>
      BY <1>1, EncodeFacts DEF x
    <2>5. QED
      BY <1>1, <2>3, <2>4
  <1>2. CASE w.type = "string"
    BY <1>2, Variants, EncodeFacts, EncodeStringFacts
  <1>3. CASE Container(w)
    <2>1. Len(Encode[w]) >= 2 /\ Encode[w][1] = Mark(w)
      <3>1. Inner(w) \in Seq(Byte) /\ Len(Encode[w]) = Len(Inner(w)) + 2 /\ Encode[w][1] = Mark(w)
        BY <1>3, ContainerText
      <3>2. QED
        BY <3>1
    <2>2. QED
      BY <1>3, <2>1 DEF Mark, Container
  <1>4. QED
    BY <1>1, <1>2, <1>3, Variants

\* Where elements start and where the last one ends.
LEMMA Offsets ==
  ASSUME NEW w \in Values, Container(w)
  PROVE  /\ Offset(w, 0) = 1
         /\ Offset(w, Count(w)) + 1 = Len(Encode[w])
         /\ \A k \in 0 .. Count(w) : Offset(w, k) \in Nat /\ Offset(w, k) + 1 <= Len(Encode[w])
  <1> DEFINE parts == Parts(w)
             n == Count(w)
  <1>1. parts \in Seq(Seq(Byte)) /\ Len(parts) = n /\ n \in Nat
    BY PartsFacts
  <1> DEFINE text == Inner(w)
  <1>2. text \in Seq(Byte) /\ text = FlattenSeq(parts) /\ Len(Encode[w]) = Len(text) + 2
    BY ContainerText DEF Inner
  <1>3. \A k : Offset(w, k) = 1 + Len(FlattenFirst(parts, k))
    BY DEF Offset
  <1> HIDE DEF text, parts, n
  <1>4. FlattenFirst(parts, 0) = << >>
    BY FirstNone
  <1>5. FlattenFirst(parts, n) = text
    BY <1>1, <1>2, FirstAll
  <1>6. ASSUME NEW k \in 0 .. n
        PROVE  Len(FlattenFirst(parts, k)) \in Nat /\ Len(FlattenFirst(parts, k)) <= Len(text)
    <2>1. k \in 0 .. Len(parts)
      BY <1>1
    <2>2. PICK rest \in Seq(Byte) :
            FlattenFirst(parts, k) \in Seq(Byte) /\ text = FlattenFirst(parts, k) \o rest
      BY <1>1, <1>2, <2>1, FirstAndRest
    <2>3. QED
      BY <2>2
  <1>7. Len(text) \in Nat /\ Len(<< >>) = 0
    BY <1>2
  <1>8. QED
    BY <1>2, <1>3, <1>4, <1>5, <1>6, <1>7 DEF n

\* Part j = k + 1 of a container at p.
LEMMA PartStands ==
  ASSUME NEW d, Len(d) \in Nat, NEW p \in Nat, NEW w \in Values, Container(w),
         Stands(d, p, Encode[w]),
         NEW k \in 0 .. Count(w) - 1, NEW j, j = k + 1
  PROVE  /\ Len(KeyText(w, j)) \in Nat /\ Item(w, j) \in Values /\ j \in 1 .. Count(w)
         /\ Stands(d, p + Offset(w, k), KeyText(w, j))
         /\ Stands(d, p + Offset(w, k) + Len(KeyText(w, j)), Encode[Item(w, j)])
         /\ Offset(w, j) = Offset(w, k) + Len(KeyText(w, j)) + Len(Encode[Item(w, j)])
  <1> DEFINE parts == Parts(w)
             n == Count(w)
             a == FlattenFirst(parts, k)
             b == FlattenFirst(parts, j)
             x == parts[j]
             h == KeyText(w, j)
             y == Encode[Item(w, j)]
  <1>1. parts \in Seq(Seq(Byte)) /\ Len(parts) = n /\ n \in Nat
    BY PartsFacts
  <1>2. Offset(w, k) = 1 + Len(a) /\ Offset(w, j) = 1 + Len(b)
    BY DEF Offset
  <1>3. j \in 1 .. n
    BY <1>1
  <1>4. x = h \o y /\ h \in Seq(Byte) /\ y \in Seq(Byte) /\ Item(w, j) \in Values
    BY <1>3, PartsFacts
  <1>5. Stands(d, p + 1, FlattenSeq(parts))
    <2> DEFINE m == <<Mark(w)>>
               text == Inner(w)
               marked == Marked(w)
    <2>1. /\ m \in Seq(Byte) /\ Len(m) = 1
          /\ text \in Seq(Byte) /\ text = FlattenSeq(parts)
          /\ marked \in Seq(Byte) /\ marked = m \o text
          /\ End \in Seq(Byte) /\ Encode[w] = marked \o End
      BY ContainerText DEF Marked, Inner
    <2> HIDE DEF m, text, marked, parts
    <2>2. Stands(d, p, marked)
      <3>1. Stands(d, p, marked \o End)
        BY <2>1
      <3>2. QED
        BY <2>1, <3>1, StandsConcat
    <2>3. Stands(d, p + Len(m), text)
      BY <2>1, <2>2, StandsConcat
    <2>4. QED
      BY <2>1, <2>3
  <1> HIDE DEF parts, n, x, h, y
  <1>6. k \in 0 .. Len(parts) - 1 /\ j \in 0 .. Len(parts)
    BY <1>1, <1>3 DEF n
  <1>7. a \in Seq(Byte) /\ x \in Seq(Byte) /\ b = a \o x
    BY <1>1, <1>6, FirstNext DEF x
  <1>8. PICK rest \in Seq(Byte) : b \in Seq(Byte) /\ FlattenSeq(parts) = b \o rest
    BY <1>1, <1>6, FirstAndRest
  <1> DEFINE q == p + 1
  <1>9. q \in Nat /\ Stands(d, q, b \o rest)
    BY <1>5, <1>8
  <1> HIDE DEF a, b, q
  <1>10. Stands(d, q, b)
    BY <1>8, <1>9, StandsConcat
  <1>11. Stands(d, q + Len(a), x)
    BY <1>7, <1>9, <1>10, StandsConcat
  <1> DEFINE r == q + Len(a)
  <1>12. r \in Nat /\ Len(a) \in Nat /\ Len(h) \in Nat /\ Len(y) \in Nat
        /\ Len(b) = Len(a) + Len(h) + Len(y)
    <2>1. Len(x) = Len(h) + Len(y) /\ Len(h) \in Nat /\ Len(y) \in Nat
      BY <1>4
    <2>2. Len(b) = Len(a) + Len(x) /\ Len(a) \in Nat
      BY <1>7
    <2>3. QED
      BY <1>9, <2>1, <2>2
  <1> HIDE DEF r
  <1>13. Stands(d, r, h) /\ Stands(d, r + Len(h), y)
    BY <1>4, <1>11, <1>12, StandsConcat DEF r
  <1>14. r = p + Offset(w, k)
    BY <1>2, <1>9, <1>12 DEF r, q
  <1>15. Offset(w, j) = Offset(w, k) + Len(h) + Len(y)
    BY <1>2, <1>12
  <1>16. QED
    BY <1>3, <1>4, <1>12, <1>13, <1>14, <1>15 DEF h, y, n

\* The "e" of a container at p.
LEMMA EndStands ==
  ASSUME NEW d, Len(d) \in Nat, NEW p \in Nat, NEW w \in Values, Container(w),
         Stands(d, p, Encode[w])
  PROVE  Stands(d, p + Offset(w, Count(w)), <<"e">>)
  <1> DEFINE text == Inner(w)
             marked == Marked(w)
  <1>1. /\ text \in Seq(Byte) /\ marked \in Seq(Byte) /\ Len(marked) = 1 + Len(text)
        /\ End \in Seq(Byte)
        /\ Encode[w] = marked \o End /\ Len(Encode[w]) = Len(text) + 2
    BY ContainerText
  <1> HIDE DEF text, marked
  <1>2. Stands(d, p + Len(marked), End)
    BY <1>1, StandsConcat
  <1>3. Offset(w, Count(w)) = Len(marked)
    <2>1. Offset(w, Count(w)) + 1 = Len(Encode[w]) /\ Offset(w, Count(w)) \in Nat
      BY Offsets, ContainerFacts
    <2>2. Len(text) \in Nat
      BY <1>1
    <2>3. QED
      BY <1>1, <2>1, <2>2
  <1>4. QED
    BY <1>2, <1>3 DEF End
=============================================================================
