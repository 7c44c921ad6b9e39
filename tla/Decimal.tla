------------------------------- MODULE Decimal -------------------------------
(***************************************************************************)
(* The exact numbers of num.go.  A JSON number is digits x 10^exp with no   *)
(* leading or trailing zero in digits; an exponent of up to W digits is an  *)
(* int64, a longer one ("huge") stays text and is added to, compared and    *)
(* written digit by digit.  In the code W is 16: maxDecimalExp is 1e15, and *)
(* the lengths 16, 17 and 18 that choose between the two forms are W, W + 1 *)
(* and W + 2 here.  A string of digits is a sequence over 0..9.             *)
(***************************************************************************)
EXTENDS Integers, Sequences
LOCAL INSTANCE SequencesExt
LOCAL INSTANCE FiniteSetsExt

CONSTANT W  \* the digits of maxDecimalExp

ASSUME WidthAssumption == W \in Nat \ {0}

\* A number text as scanMantissa and scanExponent split it: the digits before
\* and after the point, and the exponent's.  source is "json" for json.Number; a Go
\* number is printed as this text before it is parsed, and its source is "go" for
\* a float64, int or int64 and "sized" for an int or uint of another size, a float32
\* or a *big.Int.
Number(neg, int, frac, eneg, exp) ==
    [t |-> "number", kind |-> "text", neg |-> neg, int |-> int, frac |-> frac,
     eneg |-> eneg, exp |-> exp, source |-> "json"]
Inf(neg) == [t |-> "number", kind |-> "inf", neg |-> neg]
NaN == [t |-> "number", kind |-> "nan"]
\* Text no number has, told apart by its characters.
Malformed(chars) == [t |-> "number", kind |-> "bad", chars |-> chars]

Decimals(special) ==
    [special |-> special, neg |-> FALSE, digits |-> <<>>, exp |-> 0, huge |-> 0, hugeExp |-> <<>>]
Zero == Decimals("none")
NotANumber == Decimals("bad")

-----------------------------------------------------------------------------
(* Strings of digits *)

digitsValue(s) == FoldLeft(LAMBDA v, d : 10 * v + d, 0, s)

Digits[n \in Nat] == IF n < 10 THEN << n >> ELSE Append(Digits[n \div 10], n % 10)

NonZero(s) == {i \in DOMAIN s : s[i] # 0}
TrimLeft(s) == IF NonZero(s) = {} THEN <<>> ELSE SubSeq(s, Min(NonZero(s)), Len(s))
TrimRight(s) == IF NonZero(s) = {} THEN <<>> ELSE SubSeq(s, 1, Max(NonZero(s)))

Digited(acc) == IF acc[1] > 0 THEN Digits[acc[1]] \o acc[2] ELSE acc[2]

\* mag + n and mag - n, column by column from the right; acc is what is left
\* of n, carry included, and the columns done.
addDigits(mag, n) ==
    LET column(d, acc) ==
            << (acc[1] \div 10) + ((d + (acc[1] % 10)) \div 10), << (d + (acc[1] % 10)) % 10 >> \o acc[2] >>
    IN Digited(FoldRight(column, mag, << n, <<>> >>))

subDigits(mag, n) ==
    LET column(d, acc) ==
            << (acc[1] \div 10) + (IF d < acc[1] % 10 THEN 1 ELSE 0), << (d - (acc[1] % 10)) % 10 >> \o acc[2] >>
    IN TrimLeft(FoldRight(column, mag, << n, <<>> >>)[2])

Abs(n) == IF n < 0 THEN -n ELSE n

\* An integer as a sign and a magnitude, and the integer of the two.
Signed(v) == << v < 0, IF v = 0 THEN <<>> ELSE Digits[Abs(v)] >>
Value(signed) == IF signed[1] THEN -digitsValue(signed[2]) ELSE digitsValue(signed[2])

AddLong(neg, mag, delta) ==
    << neg, IF delta >= 0 THEN addDigits(mag, delta) ELSE subDigits(mag, -delta) >>

\* (-1)^neg x mag + delta; a magnitude of W + 2 digits keeps its sign.
addSmall(neg, mag, delta) ==
    IF Len(mag) <= W + 1 THEN Signed(Value(<< neg, mag >>) + delta)
    ELSE AddLong(neg, mag, IF neg THEN -delta ELSE delta)

maxDecimalExp == 10 ^ (W - 1)
isSmall(mag) == Len(mag) <= W /\ digitsValue(mag) <= maxDecimalExp

compareInts(a, b) == IF a < b THEN -1 ELSE IF a > b THEN 1 ELSE 0

\* strings.Compare
FirstDifference(a, b) == Min({i \in 1..Min({Len(a), Len(b)}) : a[i] # b[i]} \cup {Len(a) + 1, Len(b) + 1})
CompareAt(a, b, i) ==
    IF i \in DOMAIN a /\ i \in DOMAIN b THEN compareInts(a[i], b[i]) ELSE compareInts(Len(a), Len(b))
Lexicographic(a, b) == CompareAt(a, b, FirstDifference(a, b))

\* Magnitudes without leading zeros: the longer is the larger.
CompareMagnitudes(a, b) == IF Len(a) # Len(b) THEN compareInts(Len(a), Len(b)) ELSE Lexicographic(a, b)
Negative(signed) == signed[1] /\ signed[2] # <<>>
cmpSigned(a, b) ==
    IF Negative(a) # Negative(b) THEN (IF Negative(a) THEN -1 ELSE 1)
    ELSE IF Negative(a) THEN CompareMagnitudes(b[2], a[2]) ELSE CompareMagnitudes(a[2], b[2])

-----------------------------------------------------------------------------
(* Parsing *)

Special(n) == [Decimals(n.kind) EXCEPT !.neg = n.kind = "inf" /\ n.neg]

\* The exponent, in the form its size calls for.
WithExponent(d, sum) ==
    IF isSmall(sum[2]) THEN [d EXCEPT !.exp = Value(sum)]
    ELSE [d EXCEPT !.huge = IF sum[1] THEN -1 ELSE 1, !.hugeExp = sum[2]]

\* Mutant: zeros cut off the end of the digits do not raise the exponent.
WrongParseText(n, digits, trimmed) ==
    CASE n.int \o n.frac = <<>> -> NotANumber
      [] trimmed = <<>> -> Zero
      [] OTHER -> WithExponent([Zero EXCEPT !.neg = n.neg, !.digits = trimmed],
                               addSmall(n.eneg, TrimLeft(n.exp), -Len(n.frac)))

\* parseDecimal of a text, given its digits without the zeros before them and
\* without those around them.
ParseText(n, digits, trimmed) ==
    CASE n.int \o n.frac = <<>> -> NotANumber
      [] trimmed = <<>> -> Zero
      [] OTHER -> WithExponent([Zero EXCEPT !.neg = n.neg, !.digits = trimmed],
                               addSmall(n.eneg, TrimLeft(n.exp), Len(digits) - Len(trimmed) - Len(n.frac)))

parseDecimal(n, digits) == ParseText(n, digits, TrimRight(digits))
parseNumber(n) == IF n.kind = "text" THEN parseDecimal(n, TrimLeft(n.int \o n.frac)) ELSE Special(n)

-----------------------------------------------------------------------------
(* Comparing *)

Finite(d) == d.special = "none"
isZero(d) == Finite(d) /\ d.digits = <<>>
sign(d) == IF isZero(d) THEN 0 ELSE IF d.neg THEN -1 ELSE 1
infRank(d) == IF d.special # "inf" THEN 0 ELSE IF d.neg THEN -1 ELSE 1

isInteger(d) ==
    /\ Finite(d)
    /\ isZero(d) \/ (IF d.huge # 0 THEN d.huge > 0 ELSE d.exp >= 0)

\* Mutant: a huge exponent is compared without the number of digits.
WrongOrder(d) ==
    IF d.huge = 0 THEN << d.exp + Len(d.digits) < 0, Digits[Abs(d.exp + Len(d.digits))] >>
    ELSE << d.huge < 0, d.hugeExp >>

\* The position of the leading digit, as a sign and a magnitude.
order(d) ==
    IF d.huge = 0 THEN << d.exp + Len(d.digits) < 0, Digits[Abs(d.exp + Len(d.digits))] >>
    ELSE addSmall(d.huge < 0, d.hugeExp, Len(d.digits))

compareOrders(a, b) ==
    IF a.huge = 0 /\ b.huge = 0 THEN compareInts(a.exp + Len(a.digits), b.exp + Len(b.digits))
    ELSE cmpSigned(order(a), order(b))
OrElse(c, other) == IF c # 0 THEN c ELSE other
cmpMagnitude(a, b) == OrElse(compareOrders(a, b), Lexicographic(a.digits, b.digits))

\* ok is FALSE when the two cannot be ordered.
cmp(a, b) ==
    IF a.special = "nan" \/ b.special = "nan" THEN [ok |-> FALSE, is |-> 0]
    ELSE [ok |-> TRUE,
          is |-> IF a.special = "inf" \/ b.special = "inf" THEN compareInts(infRank(a), infRank(b))
                 ELSE IF sign(a) # sign(b) \/ sign(a) = 0 THEN compareInts(sign(a), sign(b))
                 ELSE sign(a) * cmpMagnitude(a, b)]

equal(a, b) == \E c \in {cmp(a, b)} : c.ok /\ c.is = 0

Char == << "0", "1", "2", "3", "4", "5", "6", "7", "8", "9" >>
Chars(digits) == [i \in DOMAIN digits |-> Char[digits[i] + 1]]
Sign(neg) == IF neg THEN << "-" >> ELSE <<>>
Itoa(n) == Sign(n < 0) \o Chars(Digits[Abs(n)])

\* The canonical text of a decimal that is not NaN.
key(d) ==
    IF d.special = "inf" THEN << IF d.neg THEN "-" ELSE "+", "i" >>
    ELSE IF isZero(d) THEN << "0" >>
    ELSE Sign(d.neg) \o Chars(d.digits) \o << "e" >>
         \o (IF d.huge # 0 THEN Itoa(d.huge) \o << "h" >> \o Chars(d.hugeExp) ELSE Itoa(d.exp))

-----------------------------------------------------------------------------
(* multipleOf *)

\* stripFives divides by 5^(2^i) for falling i, each as often as it goes.
Powers[i \in Nat] == IF i = 0 THEN 5 ELSE Powers[i - 1] * Powers[i - 1]
RECURSIVE DivideOut(_, _, _)
DivideOut(n, i, count) ==
    IF n % Powers[i] = 0 THEN DivideOut(n \div Powers[i], i, count + 2 ^ i)
    ELSE IF i = 0 THEN << n, count >>
    ELSE DivideOut(n, i - 1, count)
stripFives(n) == DivideOut(n, Max({0} \cup {i \in 1..3 : Powers[i] <= n}), 0)

\* The digits of the divisor as 2^p x 5^q x m.
Divisor(exp, p, five) == [exp |-> exp, m |-> five[1], p |-> p, q |-> five[2]]
SplitTwos(d, b, p) == Divisor(d.exp, p, stripFives(b \div 2 ^ p))
newDivisor(d) ==
    SplitTwos(d, digitsValue(d.digits),
              Max({i \in 0..4 * Len(d.digits) : digitsValue(d.digits) % 2 ^ i = 0}))

\* The remainder is carried over the digits W + 2 at a time, the first time
\* over what the others leave.
Chunk == W + 2
digitsDivisible(digits, n) ==
    LET Rest[end \in 1..Len(digits)] ==
            IF end <= Chunk THEN digitsValue(SubSeq(digits, 1, end)) % n
            ELSE ((Rest[end - Chunk] * 10 ^ Chunk)
                    + digitsValue(SubSeq(digits, end - Chunk + 1, end))) % n
    IN Rest[Len(digits)] = 0

\* Mutant: the twos and fives that the exponent supplies are asked for again.
WrongNeed(dv, k) == dv.m * 2 ^ dv.p * 5 ^ dv.q

Need(dv, k) == dv.m * 2 ^ Max({0, dv.p - k}) * 5 ^ Max({0, dv.q - k})

\* An exponent of more than W + 2 digits supplies every factor of two and five.
DividesAt(dv, x, k, known) ==
    /\ known => k >= 0
    /\ digitsDivisible(x.digits, IF known THEN Need(dv, k) ELSE dv.m)
divides(dv, x) ==
    \/ isZero(x)
    \/ /\ Finite(x) /\ x.huge >= 0
       /\ DividesAt(dv, x, (IF x.huge = 0 THEN x.exp ELSE digitsValue(x.hugeExp)) - dv.exp,
                    x.huge = 0 \/ Len(x.hugeExp) <= W + 2)
=============================================================================
