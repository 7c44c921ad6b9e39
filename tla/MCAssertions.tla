---------------------------- MODULE MCAssertions ----------------------------
(***************************************************************************)
(* What the assertion keywords mean, said of the texts of the numbers digit *)
(* by digit and without any limit on exponents, and the values TLC compares *)
(* Assertions with it on.                                                   *)
(***************************************************************************)
EXTENDS Assertions, SequencesExt, FiniteSetsExt

(* Numbers, from their texts *)

Exponent(n) == IF n.eneg THEN -digitsValue(n.exp) ELSE digitsValue(n.exp)
\* The non-zero digits with the powers of ten they stand for.
Places(n) ==
    {<< Exponent(n) + Len(n.int) - i, (n.int \o n.frac)[i] >> :
        i \in {j \in DOMAIN (n.int \o n.frac) : (n.int \o n.frac)[j] # 0}}
At(places, power) == IF \E p \in places : p[1] = power THEN (CHOOSE p \in places : p[1] = power)[2] ELSE 0
Powers10(places) == {p[1] : p \in places}

MagnitudeLess(a, b) ==
    LET differ == {p \in Powers10(a \cup b) : At(a, p) # At(b, p)}
    IN differ # {} /\ At(a, Max(differ)) < At(b, Max(differ))
SameMagnitude(a, b) == ~MagnitudeLess(a, b) /\ ~MagnitudeLess(b, a)

Comparable(n) == n.kind \in {"text", "inf"}
Below(n) == n.neg /\ (n.kind = "inf" \/ Places(n) # {})
Above(n) == ~n.neg /\ (n.kind = "inf" \/ Places(n) # {})
Less(a, b) ==
    IF a.kind = "inf" \/ b.kind = "inf"
    THEN \/ a.kind = "inf" /\ a.neg /\ ~(b.kind = "inf" /\ b.neg)
         \/ b.kind = "inf" /\ ~b.neg /\ ~(a.kind = "inf" /\ ~a.neg)
    ELSE \/ Below(a) /\ ~Below(b)
         \/ Above(b) /\ ~Above(a)
         \/ Above(a) /\ Above(b) /\ MagnitudeLess(Places(a), Places(b))
         \/ Below(a) /\ Below(b) /\ MagnitudeLess(Places(b), Places(a))
SameNumber(a, b) == ~Less(a, b) /\ ~Less(b, a)

Whole(n) == n.kind = "text" /\ \A p \in Places(n) : p[1] >= 0

RECURSIVE PowerOf10Mod(_, _)
PowerOf10Mod(k, m) ==
    IF k = 0 THEN 1 % m
    ELSE LET half == PowerOf10Mod(k \div 2, m)
         IN (((half * half) % m) * (IF k % 2 = 1 THEN 10 ELSE 1)) % m

Multiple(x, of) ==
    LET mx == digitsValue(x.int \o x.frac)
        mo == digitsValue(of.int \o of.frac)
        k == (Exponent(x) - Len(x.frac)) - (Exponent(of) - Len(of.frac))
    IN \/ mx = 0
       \/ k >= 0 /\ ((mx % mo) * PowerOf10Mod(k, mo)) % mo = 0
       \/ k < 0 /\ k >= -5 /\ mx % (mo * 10 ^ (-k)) = 0

RECURSIVE Same(_, _)
Same(a, b) ==
    CASE a.t # b.t -> FALSE
      [] a.t = "number" /\ Comparable(a) /\ Comparable(b) -> SameNumber(a, b)
      [] a.t = "number" /\ (a.kind = "nan" \/ b.kind = "nan") -> FALSE
      [] a.t = "array" -> /\ Len(a.items) = Len(b.items)
                          /\ \A i \in DOMAIN a.items : Same(a.items[i], b.items[i])
      [] a.t = "object" -> /\ Names(a) = Names(b)
                           /\ \A n \in Names(a) : Same(Member(a, n), Member(b, n))
      [] OTHER -> a = b

Twins(items) ==
    {p \in (DOMAIN items) \X (DOMAIN items) : p[1] < p[2] /\ Same(items[p[1]], items[p[2]])}

-----------------------------------------------------------------------------
(* Keywords *)

IsText(v) == v.t = "number" /\ v.kind = "text"
WellFormed(k) ==
    CASE k.kw \in Counts -> k.raw.t = "number" /\ Whole(k.raw) /\ ~Below(k.raw)
      [] k.kw = "multipleOf" ->
            /\ IsText(k.raw) /\ Above(k.raw)
            /\ Min(Powers10(Places(k.raw))) \in -maxDecimalExp..maxDecimalExp
      [] k.kw \in Ranges -> IsText(k.raw)
      [] k.kw \in ExclusiveRanges -> IsText(k.raw) \/ (k.draft = 4 /\ k.raw.t = "boolean")
      [] k.kw = "type" -> k.raw.t = "string" \/ IsStrings(k.raw)
      [] k.kw = "required" -> IsStrings(k.raw)
      [] k.kw = "dependentRequired" ->
            k.raw.t = "object" /\ \A i \in DOMAIN k.raw.members : IsStrings(k.raw.members[i][2])
      [] k.kw = "enum" -> k.raw.t = "array"
      [] k.kw = "uniqueItems" -> k.raw.t = "boolean"
      [] OTHER -> TRUE

IsExclusive(k) ==
    \/ k.kw \in ExclusiveRanges
    \/ /\ k.draft = 4
       /\ \E i \in DOMAIN k.parent.members : k.parent.members[i] = << Exclusive[k.kw], Boolean(TRUE) >>
InRange(k, v) ==
    /\ Comparable(v)
    /\ IF k.kw \in Upper THEN ~Less(k.raw, v) ELSE ~Less(v, k.raw)
    /\ IsExclusive(k) => ~SameNumber(v, k.raw)

NumberOf(n) == Number(FALSE, Digits[n], <<>>, FALSE, <<>>)

Listed(raw) == IF raw.t = "string" THEN {raw.chars} ELSE {raw.items[i].chars : i \in DOMAIN raw.items}
IsA(v, name, draft) ==
    IF name # << "integer" >> THEN name = << v.t >>
    ELSE /\ v.t = "number" /\ Whole(v)
         /\ draft = 4 => v.source = "go" \/ v.frac \o v.exp = <<>>

\* Properties that an output need not have, or an input.
Excused(parent, opts) ==
    {name \in UNION {Names(parent.members[i][2]) :
                        i \in {j \in DOMAIN parent.members : parent.members[j][1] = << "properties" >>}} :
        \E flag \in {<< "readOnly" >>, << "writeOnly" >>} :
            /\ << IF flag = << "readOnly" >> THEN "writeOnly" ELSE "readOnly" >>[1] \in opts
            /\ << flag, Boolean(TRUE) >> \in ToSet(Member(Member(parent, << "properties" >>), name).members)}

\* The verdict of a keyword whose value is well formed.
Holds(k, v, opts) ==
    CASE k.kw \in Ranges \cup ExclusiveRanges ->
            (v.t = "number" /\ k.raw.t = "number") => InRange(k, v)
      [] k.kw = "multipleOf" -> v.t = "number" => v.kind = "text" /\ Multiple(v, k.raw)
      [] k.kw \in Counts ->
            v.t = HasSize(k.kw) =>
                \E n \in {NumberOf(Size(k.kw, v))} :
                    IF k.kw \in Upper THEN ~Less(k.raw, n) ELSE ~Less(n, k.raw)
      [] k.kw = "type" -> \E name \in Listed(k.raw) : IsA(v, name, k.draft)
      [] k.kw = "enum" -> \E i \in DOMAIN k.raw.items : Same(v, k.raw.items[i])
      [] k.kw = "const" -> Same(v, k.raw)
      [] k.kw = "uniqueItems" -> (k.raw.is /\ v.t = "array") => Twins(v.items) = {}
      [] k.kw = "required" ->
            v.t = "object" => Listed(k.raw) \ Names(v) \subseteq Excused(k.parent, opts)
      [] k.kw = "dependentRequired" ->
            v.t = "object" =>
                \A i \in DOMAIN k.raw.members :
                    k.raw.members[i][1] \in Names(v) => Listed(k.raw.members[i][2]) \subseteq Names(v)

-----------------------------------------------------------------------------
(* Inputs *)

\* d x 10^e written with an exponent, and d / 10^places with a point.
E(d, e) == Number(d < 0, Digits[Abs(d)], <<>>, e < 0, Digits[Abs(e)])
Point(int, frac, e) == Number(FALSE, int, frac, e < 0, IF e = 0 THEN <<>> ELSE Digits[Abs(e)])
I(d) == Number(d < 0, Digits[Abs(d)], <<>>, FALSE, <<>>)
Go(n) == [n EXCEPT !.source = "go"]
GoSized(n) == [n EXCEPT !.source = "sized"]

Units == {I(0), Number(TRUE, << 0 >>, <<>>, FALSE, <<>>), E(0, 9999), I(1), Point(<< 1 >>, << 0 >>, 0),
          E(10, -1), Number(FALSE, << 1 >>, <<>>, TRUE, << 0, 0 >>), Go(E(1, 0)), GoSized(I(1)),
          I(-1), I(2), GoSized(I(3)), I(10), Point(<< 0 >>, << 1 >>, 0)}
Dozens == {I(12), E(120, -1), Point(<< 0 >>, << 0, 1, 2 >>, 3), E(1, 1), I(42), I(43), E(4, 2), I(100)}
Edges == {E(7, 10), E(7, 11), E(70, 10), Point(<< 0 >>, << 7 >>, 11), E(-7, 11),
          E(1, -10), E(1, -11), E(15, -11), E(10, -11)}
Huge == {E(1, 999), E(10, 998), E(1, 1000), Point(<< 0 >>, << 1 >>, 1001), E(10, 999),
         Number(FALSE, << 1 >>, <<>>, FALSE, << 0, 9, 9, 9 >>), E(1, -1000),
         Point(<< 0 >>, << 0, 1 >>, -998), E(12, 9998), E(1, 9999), Point(<< 0 >>, << 1 >>, 10000), E(-1, 9999)}
Long == {I(12345), I(30030), Point(<< 3, 0 >>, << 0, 3 >>, 0), I(10001), E(12345, 6), E(99999, -4)}
Specials == {Inf(FALSE), Inf(TRUE), NaN, Malformed(<< "x" >>), Malformed(<< "y" >>)}
Numbers == Units \cup Dozens \cup Edges \cup Huge \cup Long \cup Specials

A == << "a" >>
B == << "b" >>
Text(n) == String([i \in 1..n |-> "x"])
Scalars == {Null, Boolean(TRUE), String(A)}
SomeObjects == {Object(<<>>), Object(<< << A, Null >> >>), Object(<< << B, Null >> >>),
                Object(<< << A, I(1) >>, << B, Null >> >>)}

\* Values that are easily taken for each other.
Alike ==
    {Null, Boolean(FALSE), String(<<>>), String(A), String(<< "a", "s", "1", ":", "b" >>),
     I(1), E(10, -1), I(0), Inf(FALSE), NaN, Malformed(<< "x" >>),
     Array(<< String(A), String(B) >>), Array(<< String(<< "a", "s", "b" >>) >>),
     Array(<< String(<< "a", "s", "1", ":", "b" >>) >>), Array(<< NaN >>), Array(<< I(1) >>),
     Object(<< << A, I(1) >> >>), Object(<< << A, Point(<< 1 >>, << 0 >>, 0) >> >>),
     Object(<< << B, I(1) >> >>), Object(<<>>),
     Other("go"), Array(<< NaN, Other("go") >>), Array(<< I(1), Other("go") >>), E(7, 11), E(70, 10)}

K(kw, raw, draft, parent) == [kw |-> kw, raw |-> raw, draft |-> draft, parent |-> parent]
Alone == Object(<<>>)
Flags(flag) == Object(<< << flag, Boolean(TRUE) >> >>)
Beside == {Alone} \cup {Object(<< << Exclusive[kw], Boolean(b) >> >>) : kw \in Ranges, b \in BOOLEAN}
Properties == Object(<< << << "properties" >>, Object(<< << A, Flags(<< "readOnly" >>) >>, << B, Flags(<< "writeOnly" >>) >> >>) >> >>)

Bounds == {I(0), I(1), E(120, -1), E(7, 10), E(70, 10), I(30030), E(1, 1000), E(1, -11), E(-1, 9999),
           Go(I(2)), GoSized(I(3))}
Malformeds == {Null, String(A), Boolean(TRUE), Inf(FALSE), NaN, Malformed(<< "x" >>), Array(<<>>)}
Divisors == {I(1), I(2), I(3), Go(I(2)), GoSized(I(3)), E(1, -10), I(12), E(25, -1), I(40), E(6, 10), I(77), I(625),
             I(0), I(-3), E(1, 11), E(1, -11), E(1, 9999), E(75, -2)}
Names2 == {Array(<<>>), Array(<< String(A) >>), Array(<< String(A), String(B) >>)}

MCKeywords ==
    {K(kw, raw, d, p) : kw \in Ranges, raw \in Bounds \cup Malformeds, d \in {4, 6}, p \in Beside}
    \cup {K(kw, raw, d, Alone) : kw \in ExclusiveRanges, raw \in Bounds \cup Malformeds, d \in {4, 6}}
    \cup {K("multipleOf", raw, 6, Alone) : raw \in Divisors \cup Malformeds}
    \cup {K(kw, raw, 6, Alone) : kw \in Counts, raw \in Bounds \cup Malformeds \cup {I(2), I(100), E(10, -1), Point(<< 1 >>, << 5 >>, 0)}}
    \cup {K("type", raw, d, Alone) :
             raw \in Malformeds \cup {String(<< t >>) : t \in {"null", "integer", "number", "object"}}
                    \cup {Array(<< String(<< "integer" >>), String(<< "array" >>) >>), Array(<< Null >>)},
             d \in {4, 6}}
    \cup {K("const", raw, 6, Alone) : raw \in Alike}
    \cup {K("enum", raw, 6, Alone) : raw \in {Array(<< x, I(1) >>) : x \in Alike} \cup Malformeds}
    \cup {K("uniqueItems", raw, 6, Alone) : raw \in Malformeds \cup {Boolean(FALSE)}}
    \cup {K("required", raw, 6, p) : raw \in Malformeds \cup Names2 \cup {Array(<< Null >>)}, p \in {Alone, Properties}}
    \cup {K("dependentRequired", raw, 6, Alone) :
             raw \in {Object(<< << A, x >>, << B, Array(<< String(A) >>) >> >>) : x \in Names2 \cup {Null}} \cup {Null}}

Few == {Null, I(1), E(10, -1), NaN, Array(<< I(1) >>), Other("go"), Array(<< NaN, Other("go") >>)}
Lists == {Array(<< x, y >>) : x, y \in Alike} \cup {Array(<< x, y, z >>) : x, y, z \in Few}
ShortLists == {Array(<<>>), Array(<< NaN >>), Array(<< I(1), I(1) >>), Array(<< Null, Null, Null >>)}
MCInstances ==
    [kw \in Ranges \cup ExclusiveRanges \cup {"multipleOf", "type"} |-> Numbers \cup Scalars]
    @@ [kw \in Lengths |-> {Text(n) : n \in 0..3} \cup Scalars]
    @@ [kw \in ItemCounts |-> ShortLists \cup Scalars]
    @@ [kw \in PropertyCounts \cup {"required", "dependentRequired"} |-> SomeObjects \cup Scalars]
    @@ [kw \in {"const", "enum"} |-> Alike]
    @@ [kw \in {"uniqueItems"} |-> Lists \cup Scalars]

-----------------------------------------------------------------------------
Compiled == evaluator.kw # "uncompiled"

\* A bound of a Go kind that checkNumberOrBool refuses and the builder takes.
Unlisted(k) == k.kw \in Ranges \cup ExclusiveRanges /\ IsText(k.raw) /\ k.raw.source = "sized"

\* Compile rejects a keyword exactly when its value is none the draft allows:
\* the early check of its shape and the builder agree, also on numbers whose
\* exponents are kept as text, and no boolean bound survives Draft 4.  Nothing is
\* said of the bounds the two do not agree on.
RejectsOnlyMalformed ==
    (Compiled /\ ~Unlisted(keyword)) => (evaluator.kw = "error" <=> ~WellFormed(keyword))

\* Bounds, sizes, counts, divisors and equalities mean what they say of the
\* texts: however exponents and digits are spread, for sizes beyond what an int
\* can hold, and with no remainder lost between chunks of digits.
VerdictsExact ==
    (outcome.done /\ keyword.kw # "uniqueItems") =>
        (outcome.passed <=> Holds(keyword, outcome.instance, outcome.opts))

\* The linear search for duplicates through keys finds what comparing every
\* pair finds, and the first pair of it.
DuplicatesExact ==
    (outcome.done /\ keyword.kw = "uniqueItems") =>
        /\ outcome.passed <=> Holds(keyword, outcome.instance, outcome.opts)
        /\ outcome.instance.t = "array" =>
                firstDuplicate(outcome.instance.items) =
                    IF Twins(outcome.instance.items) = {} THEN <<>> ELSE First(Twins(outcome.instance.items))
=============================================================================
