----------------------------- MODULE Assertions -----------------------------
(***************************************************************************)
(* The assertion keywords of eval_validation.go and the checks compile.go   *)
(* makes of their values.  A keyword is compiled (its shape is checked and  *)
(* its evaluator built) and the evaluator is then given one instance.       *)
(***************************************************************************)
EXTENDS Decimal
LOCAL INSTANCE SequencesExt
LOCAL INSTANCE FiniteSetsExt

CONSTANTS
    MaxInt,     \* math.MaxInt
    Keywords,   \* the keywords compiled, with their siblings
    Instances   \* the values each of them is given

ASSUME IntAssumption == MaxInt \in Nat \ {0}

\* JSON values.  A string and a name are sequences of characters; an object is
\* the sequence of its members, <<name, value>>, in the order of the names.
Null == [t |-> "null"]
Boolean(b) == [t |-> "boolean", is |-> b]
String(chars) == [t |-> "string", chars |-> chars]
Array(items) == [t |-> "array", items |-> items]
Object(members) == [t |-> "object", members |-> members]
\* A Go value that is none of the shapes of JSON.
Other(value) == [t |-> "other", value |-> value]

Names(object) == {object.members[i][1] : i \in DOMAIN object.members}
Member(object, name) ==
    object.members[CHOOSE i \in DOMAIN object.members : object.members[i][1] = name][2]

isJSONNumber(v) == v.t = "number"
isJSONInteger(v) == isJSONNumber(v) /\ isInteger(parseNumber(v))

\* Number text with a fraction or an exponent is no integer in Draft 4.
isDraft4Integer(v) ==
    /\ isJSONInteger(v)
    /\ v.source = "json" => v.frac = <<>> /\ v.exp = <<>>

\* The name of a type, as every string, is a sequence.
matchesType(v, type) ==
    IF type = << "integer" >> THEN isJSONInteger(v) ELSE v.t # "other" /\ type = << v.t >>

-----------------------------------------------------------------------------
(* Equality *)

Numeric(v) == isJSONNumber(v) /\ v.kind # "bad"

RECURSIVE canonicalEqual(_, _)
canonicalEqual(a, b) ==
    CASE a.t # b.t -> FALSE
      [] Numeric(a) /\ Numeric(b) -> equal(parseNumber(a), parseNumber(b))
      [] a.t = "array" ->
            /\ Len(a.items) = Len(b.items)
            /\ \A i \in DOMAIN a.items : canonicalEqual(a.items[i], b.items[i])
      [] a.t = "object" ->
            /\ Len(a.members) = Len(b.members)
            /\ \A name \in Names(a) :
                  name \in Names(b) /\ canonicalEqual(Member(a, name), Member(b, name))
      [] OTHER -> a = b

Keyed(chars, nan) == [ok |-> TRUE, key |-> chars, nan |-> nan]

\* A text preceded by its length: no other value's key starts the same way.
Sized(chars) == Itoa(Len(chars)) \o << ":" >> \o chars

\* Mutant: every NaN has the same key.
WrongNumberKey(n, nan) ==
    CASE n.kind = "bad" -> Keyed(<< "u" >> \o Sized(n.chars), nan)
      [] n.kind = "nan" -> Keyed(<< "N", ";" >>, nan)
      [] OTHER -> Keyed(<< "n" >> \o key(parseNumber(n)) \o << ";" >>, nan)

\* A number that parses, as its value; NaN equals nothing and is numbered.
numberKey(n, nan) ==
    CASE n.kind = "bad" -> Keyed(<< "u" >> \o Sized(n.chars), nan)
      [] n.kind = "nan" -> Keyed(<< "N" >> \o Itoa(nan) \o << ";" >>, nan + 1)
      [] OTHER -> Keyed(<< "n" >> \o key(parseNumber(n)) \o << ";" >>, nan)

\* The parts of a key, each written after what comes before it.
Then(done, part) == IF done.ok THEN [part EXCEPT !.key = done.key \o part.key] ELSE done
Close(done, char) == IF done.ok THEN [done EXCEPT !.key = @ \o << char >>] ELSE done

\* Two values have the same key exactly when they are canonicalEqual; nan is
\* the number of NaNs met before.
RECURSIVE canonicalKey(_, _)
canonicalKey(v, nan) ==
    LET item(done, x) == Then(done, canonicalKey(x, done.nan))
        member(done, m) == Then(done, Then(Keyed(Sized(m[1]), done.nan), canonicalKey(m[2], done.nan)))
    IN CASE v.t = "null" -> Keyed(<< "z" >>, nan)
         [] v.t = "boolean" -> Keyed(<< IF v.is THEN "t" ELSE "f" >>, nan)
         [] v.t = "string" -> Keyed(<< "s" >> \o Sized(v.chars), nan)
         [] v.t = "number" -> numberKey(v, nan)
         [] v.t = "array" -> Close(FoldLeft(item, Keyed(<< "[" >>, nan), v.items), "]")
         [] v.t = "object" -> Close(FoldLeft(member, Keyed(<< "{" >>, nan), v.members), "}")
         [] OTHER -> [Keyed(<<>>, nan) EXCEPT !.ok = FALSE]

\* The keys of the items; an item without one may still have met NaNs.
Keys(items) ==
    LET next(done, x) == Append(done, canonicalKey(x, IF done = <<>> THEN 0 ELSE Last(done).nan))
    IN FoldLeft(next, <<>>, items)

First(pairs) == CHOOSE p \in pairs : \A o \in pairs : p[1] < o[1] \/ (p[1] = o[1] /\ p[2] <= o[2])

\* What is found among items without keys counts when it comes first.
Earlier(keyed, unkeyed) ==
    IF keyed = {} \/ (unkeyed # {} /\ First(unkeyed)[1] < First(keyed)[1]) THEN First(unkeyed) ELSE First(keyed)
Found(keyed, unkeyed) == IF keyed \cup unkeyed = {} THEN <<>> ELSE Earlier(keyed, unkeyed)

\* The first pair of equal items, or none: items with keys are compared through
\* their keys, those without pairwise.
DuplicateIn(items, keys) ==
    LET pairs == {p \in (DOMAIN items) \X (DOMAIN items) : p[1] < p[2]}
    IN Found({p \in pairs : keys[p[1]].ok /\ keys[p[2]].ok /\ keys[p[1]].key = keys[p[2]].key},
             {p \in pairs : ~keys[p[1]].ok /\ ~keys[p[2]].ok /\ canonicalEqual(items[p[1]], items[p[2]])})
firstDuplicate(items) == DuplicateIn(items, Keys(items))

-----------------------------------------------------------------------------
(* The shape of a keyword's value *)

Lengths == {"minLength", "maxLength"}
ItemCounts == {"minItems", "maxItems"}
PropertyCounts == {"minProperties", "maxProperties"}
Counts == Lengths \cup ItemCounts \cup PropertyCounts
Ranges == {"minimum", "maximum"}
ExclusiveRanges == {"exclusiveMinimum", "exclusiveMaximum"}
Upper == {"maximum", "exclusiveMaximum", "maxLength", "maxItems", "maxProperties"}

isNonNegativeInteger(v) ==
    Numeric(v) /\ \E d \in {parseNumber(v)} : sign(d) >= 0 /\ isInteger(d)
\* A finite number whose exponent is not huge.
isPositiveNumber(v) ==
    Numeric(v) /\ \E d \in {parseNumber(v)} : Finite(d) /\ d.huge = 0 /\ sign(d) > 0
IsStrings(v) == v.t = "array" /\ \A i \in DOMAIN v.items : v.items[i].t = "string"

\* The other Go kinds of numbers, which parseNumber takes, are not in its list.
checkNumberOrBool(raw) ==
    \/ raw.t = "boolean"
    \/ raw.t = "number" /\ (raw.kind = "text" => raw.source \in {"json", "go"})

validateKeywordShape(kw, raw) ==
    CASE kw \in Counts -> isNonNegativeInteger(raw)
      [] kw = "multipleOf" -> isPositiveNumber(raw)
      [] kw \in Ranges \cup ExclusiveRanges -> checkNumberOrBool(raw)
      [] kw = "type" -> raw.t = "string" \/ IsStrings(raw)
      [] kw = "required" -> IsStrings(raw)
      [] kw = "enum" -> raw.t = "array"
      [] kw = "uniqueItems" -> raw.t = "boolean"
      [] OTHER -> TRUE

-----------------------------------------------------------------------------
(* Evaluators: what a builder keeps of a keyword *)

Rejected == [kw |-> "error"]
NoEvaluator == [kw |-> "none"]

schemaNumber(raw) == isJSONNumber(raw) /\ raw.kind = "text"

\* An integer beyond the range of int becomes its end: no length reaches it.
Clamp(d, limit) ==
    CASE isZero(d) -> 0
      [] d.huge # 0 \/ d.exp + Len(d.digits) > Len(Digits[MaxInt]) -> limit
      [] digitsValue(d.digits) * 10 ^ d.exp > MaxInt -> limit
      [] OTHER -> digitsValue(d.digits) * 10 ^ d.exp * (IF d.neg THEN -1 ELSE 1)
IntOf(d) ==
    [ok |-> isInteger(d),
     is |-> IF isInteger(d) THEN Clamp(d, IF d.neg THEN -MaxInt - 1 ELSE MaxInt) ELSE 0]
toInt(raw) == IF Numeric(raw) THEN IntOf(parseNumber(raw)) ELSE [ok |-> FALSE, is |-> 0]

\* Draft 4's exclusiveMaximum true makes its sibling maximum exclusive.
Exclusive == [maximum |-> << "exclusiveMaximum" >>, minimum |-> << "exclusiveMinimum" >>]
Has(object, name, value) == name \in Names(object) /\ Member(object, name) = value
RangeOf(k, exclusive) ==
    IF schemaNumber(k.raw)
    THEN [kw |-> k.kw, bound |-> parseNumber(k.raw), upper |-> k.kw \in Upper, exclusive |-> exclusive]
    ELSE Rejected
buildRange(k) == RangeOf(k, k.draft <= 4 /\ Has(k.parent, Exclusive[k.kw], Boolean(TRUE)))

\* Mutant: the Draft 4 form is accepted in every draft.
WrongBuildExclusiveRange(k) == IF k.raw.t = "boolean" THEN NoEvaluator ELSE RangeOf(k, TRUE)

\* The boolean itself has no evaluator.
buildExclusiveRange(k) ==
    IF k.raw.t = "boolean" /\ k.draft <= 4 THEN NoEvaluator ELSE RangeOf(k, TRUE)

buildMultipleOf(k) ==
    IF isPositiveNumber(k.raw) THEN [kw |-> k.kw, divisor |-> newDivisor(parseNumber(k.raw))] ELSE Rejected

CountOf(k, bound) ==
    IF bound.ok /\ bound.is >= 0 THEN [kw |-> k.kw, bound |-> bound.is, upper |-> k.kw \in Upper] ELSE Rejected
buildCount(k) == CountOf(k, toInt(k.raw))

\* The properties whose schemas say readOnly or writeOnly true.
Flagged(properties, flag) ==
    {name \in Names(properties) :
        Member(properties, name).t = "object" /\ Has(Member(properties, name), flag, Boolean(TRUE))}
scanDirectionalAnnotations(parent) ==
    LET scan(properties) ==
            [readOnly |-> Flagged(properties, << "readOnly" >>), writeOnly |-> Flagged(properties, << "writeOnly" >>)]
    IN IF << "properties" >> \in Names(parent) /\ Member(parent, << "properties" >>).t = "object"
       THEN scan(Member(parent, << "properties" >>))
       ELSE scan(Object(<<>>))

buildRequired(k) ==
    IF IsStrings(k.raw)
    THEN [kw |-> k.kw, keys |-> {k.raw.items[i].chars : i \in DOMAIN k.raw.items},
          skip |-> scanDirectionalAnnotations(k.parent)]
    ELSE Rejected

buildDependentRequired(k) ==
    IF k.raw.t = "object" /\ \A name \in Names(k.raw) : IsStrings(Member(k.raw, name))
    THEN [kw |-> k.kw, deps |-> k.raw]
    ELSE Rejected

\* Entries of type that are not strings are left out.
buildType(k) ==
    CASE k.raw.t = "string" -> [kw |-> k.kw, allowed |-> {k.raw.chars}, draft4 |-> k.draft = 4]
      [] k.raw.t = "array" ->
            [kw |-> k.kw, draft4 |-> k.draft = 4,
             allowed |-> {k.raw.items[i].chars : i \in {j \in DOMAIN k.raw.items : k.raw.items[j].t = "string"}}]
      [] OTHER -> Rejected

\* Which builder a keyword is registered with.
builder(k) ==
    CASE k.kw = "type" -> buildType(k)
      [] k.kw = "enum" -> IF k.raw.t = "array" THEN [kw |-> "enum", vals |-> k.raw.items] ELSE Rejected
      [] k.kw = "const" -> [kw |-> "const", val |-> k.raw]
      [] k.kw = "multipleOf" -> buildMultipleOf(k)
      [] k.kw \in Ranges -> buildRange(k)
      [] k.kw \in ExclusiveRanges -> buildExclusiveRange(k)
      [] k.kw \in Counts -> buildCount(k)
      [] k.kw = "uniqueItems" ->
            IF k.raw.t = "boolean" THEN [kw |-> "uniqueItems", on |-> k.raw.is] ELSE Rejected
      [] k.kw = "required" -> buildRequired(k)
      [] k.kw = "dependentRequired" -> buildDependentRequired(k)

-----------------------------------------------------------------------------
(* Evaluation: whether an evaluator accepts an instance *)

\* c orders an instance and the bound, when they can be ordered.
Within(ev, c) ==
    /\ c.ok
    /\ \/ ev.upper /\ c.is < 0
       \/ ~ev.upper /\ c.is > 0
       \/ ~ev.exclusive /\ c.is = 0

rangeEval(ev, instance) ==
    isJSONNumber(instance) => Numeric(instance) /\ Within(ev, cmp(parseNumber(instance), ev.bound))

multipleOfEval(ev, instance) ==
    isJSONNumber(instance) => Numeric(instance) /\ divides(ev.divisor, parseNumber(instance))

Size(kw, v) ==
    IF kw \in Lengths THEN Len(v.chars) ELSE IF kw \in ItemCounts THEN Len(v.items) ELSE Len(v.members)
HasSize(kw) == IF kw \in Lengths THEN "string" ELSE IF kw \in ItemCounts THEN "array" ELSE "object"
countEval(ev, instance) ==
    instance.t = HasSize(ev.kw) =>
        IF ev.upper THEN Size(ev.kw, instance) <= ev.bound ELSE Size(ev.kw, instance) >= ev.bound

\* WithWriteOnly asks for no property that is readOnly, and the other way round.
requiredEval(ev, instance, opts) ==
    instance.t = "object" =>
        \A name \in ev.keys :
            \/ "writeOnly" \in opts /\ name \in ev.skip.readOnly
            \/ "readOnly" \in opts /\ name \in ev.skip.writeOnly
            \/ name \in Names(instance)

dependentRequiredEval(ev, instance) ==
    instance.t = "object" =>
        \A name \in Names(ev.deps) \cap Names(instance) :
            \A i \in DOMAIN Member(ev.deps, name).items :
                Member(ev.deps, name).items[i].chars \in Names(instance)

typeEval(ev, instance) ==
    \E type \in ev.allowed :
        IF type = << "integer" >> /\ ev.draft4 THEN isDraft4Integer(instance) ELSE matchesType(instance, type)

eval(ev, instance, opts) ==
    CASE ev.kw = "none" -> TRUE
      [] ev.kw = "type" -> typeEval(ev, instance)
      [] ev.kw = "enum" -> \E i \in DOMAIN ev.vals : canonicalEqual(instance, ev.vals[i])
      [] ev.kw = "const" -> canonicalEqual(instance, ev.val)
      [] ev.kw = "multipleOf" -> multipleOfEval(ev, instance)
      [] ev.kw \in Ranges \cup ExclusiveRanges -> rangeEval(ev, instance)
      [] ev.kw \in Counts -> countEval(ev, instance)
      [] ev.kw = "uniqueItems" ->
            (ev.on /\ instance.t = "array") => firstDuplicate(instance.items) = <<>>
      [] ev.kw = "required" -> requiredEval(ev, instance, opts)
      [] ev.kw = "dependentRequired" -> dependentRequiredEval(ev, instance)

-----------------------------------------------------------------------------
VARIABLES keyword, evaluator, outcome

vars == << keyword, evaluator, outcome >>
NoOutcome == [done |-> FALSE]

Init ==
    /\ keyword \in Keywords
    /\ evaluator = [kw |-> "uncompiled"]
    /\ outcome = NoOutcome

Compile ==
    /\ evaluator.kw = "uncompiled"
    /\ evaluator' = IF validateKeywordShape(keyword.kw, keyword.raw) THEN builder(keyword) ELSE Rejected
    /\ UNCHANGED << keyword, outcome >>

Validate(instance, opts) ==
    /\ evaluator.kw \notin {"uncompiled", "error"}
    /\ ~outcome.done
    /\ outcome' = [done |-> TRUE, instance |-> instance, opts |-> opts,
                   passed |-> eval(evaluator, instance, opts)]
    /\ UNCHANGED << keyword, evaluator >>

Next ==
    \/ Compile
    \/ \E instance \in Instances[keyword.kw],
         opts \in SUBSET (IF keyword.kw = "required" THEN {"readOnly", "writeOnly"} ELSE {}) :
          Validate(instance, opts)

Spec == Init /\ [][Next]_vars
=============================================================================
