------------------------------- MODULE Generator -------------------------------
(***************************************************************************)
(* generate.FromType (generate/generator.go, generator_fields.go,           *)
(* generator_tags.go): from a Go type to a schema for the JSON that         *)
(* encoding/json writes for its values, with $defs for recursive types.     *)
(*                                                                          *)
(* A Go type is a record: its kind, and what the kind needs; a named type   *)
(* is declared in Decl.  A schema is a function from the keywords it has to *)
(* their values.  GoValues says what encoding/json writes, and Meets what a *)
(* field's tag asks for: the generated schema is compared with them.        *)
(***************************************************************************)
EXTENDS Integers, Sequences, SequencesExt, FiniteSets, TLC

CONSTANTS Decl,     \* name -> [base, type, marshals]: the declared types
          Root,     \* the types schemas are generated for
          Options,  \* the options: [nullable, expanded, closed, emitters]
          Depth     \* bound: pointers, elements and entries inside one another in a value

VARIABLES goType,   \* the type
          options,
          doc,      \* <<>>, then what bytesFromType returned
          text      \* <<>>, then a text encoding/json writes for a value of the type

vars == <<goType, options, doc, text>>

-----------------------------------------------------------------------------
(* Go types and JSON texts *)

Named(name) == [kind |-> "named", name |-> name]
IsNamed(t) == t.kind = "named"
Under(t) == IF IsNamed(t) THEN Decl[t.name].type ELSE t

\* reflect.Kind, of a declared type that of the type it stands for.
Kind(t) == Under(t).kind
Marshals(t, how) == IsNamed(t) /\ Decl[t.name].marshals = how

\* MinInt8 and the like; an int has no bounds in a schema, a uint one.
IntKinds == {"int", "int8"}
UintKinds == {"uint", "uint8"}
Low(kind) == CASE kind = "int8" -> -128 [] kind \in UintKinds -> 0 [] OTHER -> -200
High(kind) == CASE kind = "int8" -> 127 [] kind = "uint8" -> 255 [] OTHER -> 200

Null == [t |-> "null"]
Integer(i) == [t |-> "integer", int |-> i]
Str(s) == [t |-> "string", str |-> s]
Bool(b) == [t |-> "boolean", bool |-> b]
Float(f) == [t |-> "number", float |-> f]
Array(items) == [t |-> "array", items |-> items]
Object(members) == [t |-> "object", members |-> members]

\* Decimal strings, and what the patterns of the ",string" option match.
Spelled(i) == ToString(i)
Decimals == {Spelled(i) : i \in {-200, -128, 0, 127, 200, 255}}
Matches(pattern, s) ==
    CASE pattern = "quotedIntPattern"   -> s \in Decimals
      [] pattern = "quotedUintPattern"  -> s \in Decimals \ {"-200", "-128"}
      [] pattern = "quotedFloatPattern" -> s \in Decimals \cup {"1.5"}

-----------------------------------------------------------------------------
(* What a schema accepts *)

RECURSIVE Accepts(_, _, _)

Accepts(s, v, defs) ==
    \A k \in DOMAIN s :
        CASE k = "type" -> v.t \in s[k] \/ (v.t = "integer" /\ "number" \in s[k])
          [] k = "anyOf" -> \E i \in DOMAIN s[k] : Accepts(s[k][i], v, defs)
          [] k = "$ref" -> s[k] \in DOMAIN defs /\ Accepts(defs[s[k]], v, defs)
          [] k = "enum" -> v \in s[k]
          [] k = "const" -> v = s[k]
          [] k = "minimum" -> v.t = "integer" => v.int >= s[k]
          [] k = "maximum" -> v.t = "integer" => v.int <= s[k]
          [] k = "pattern" -> v.t = "string" => Matches(s[k], v.str)
          [] k = "minLength" -> v.t = "string" => Len(v.str) >= s[k]
          [] k = "minItems" -> v.t = "array" => Len(v.items) >= s[k]
          [] k = "items" -> v.t = "array" => \A i \in DOMAIN v.items : Accepts(s[k], v.items[i], defs)
          [] k = "properties" -> v.t = "object" =>
                \A p \in DOMAIN s[k] \cap DOMAIN v.members : Accepts(s[k][p], v.members[p], defs)
          [] k = "required" -> v.t = "object" => s[k] \subseteq DOMAIN v.members
          [] k = "closed" -> v.t = "object" => DOMAIN v.members \subseteq
                (IF "properties" \in DOMAIN s THEN DOMAIN s["properties"] ELSE {})
          [] k = "propertyNames" -> v.t = "object" => \A p \in DOMAIN v.members : Matches(s[k], p)
          [] k = "additionalProperties" -> v.t = "object" =>
                \A p \in DOMAIN v.members : Accepts(s[k], v.members[p], defs)
          [] k = "undefined" -> FALSE

-----------------------------------------------------------------------------
(* Schemas *)

\* m.set, and the keywords of a schema made of nothing but a type.
Set(s, keyword, value) == (keyword :> value) @@ s
OfType(types) == "type" :> types
Anything == <<>>

\* A walk's outcome: a schema and the definitions so far, or an error.
Made(s, c) == [ok |-> TRUE, s |-> s, c |-> c]
Refused(c) == [ok |-> FALSE, s |-> Anything, c |-> c]

\* Mutants: a nil slice is forgotten; the null of a pointer is left in.
NeverNil(t, typ) == {typ}
KeepsNull(s) == s

\* nilable: a nil slice or map is written as null.
nilable(t, typ) == IF Kind(t) \in {"slice", "map"} THEN {typ, "null"} ELSE {typ}

\* dropNull, for a field that omits a nil slice or map.
dropNull(s) ==
    IF "type" \in DOMAIN s /\ "null" \in s["type"] /\ Cardinality(s["type"]) = 2
    THEN Set(s, "type", s["type"] \ {"null"}) ELSE s

\* nullWrappers: the schemas nullablePointer made, and what they wrap.
Wrap(s) == "anyOf" :> <<OfType({"null"}), s>>
IsWrapper(s) == DOMAIN s = {"anyOf"}
Unwrapped(s) == s["anyOf"][2]

allowsNull(s) == "type" \in DOMAIN s /\ "null" \in s["type"]

\* top: the reflection path is "$".
nullablePointer(s, o, top) ==
    CASE o.nullable = "false" -> s
      [] o.nullable = "true"  -> Wrap(s)
      [] top \/ allowsNull(s) -> s
      [] OTHER                -> Wrap(s)

omitsNilPointer(s, o, omits) ==
    IF omits /\ o.nullable = "unset" /\ IsWrapper(s) THEN Unwrapped(s) ELSE s

\* integerSchemaForKind.
IntegerSchema(kind) ==
    CASE kind = "int"  -> OfType({"integer"})
      [] kind = "uint" -> Set(OfType({"integer"}), "minimum", 0)
      [] OTHER         -> Set(Set(OfType({"integer"}), "minimum", Low(kind)), "maximum", High(kind))

-----------------------------------------------------------------------------
(* Struct tags: a function from the options given to their values *)

RECURSIVE Pointee(_)
Pointee(t) == IF Kind(t) = "ptr" THEN Pointee(Under(t).elem) ELSE t

\* What ParseInt makes of the numerals tags hold; other words are not numbers.
Numeral == "0" :> 0 @@ "127" :> 127 @@ "200" :> 200

\* coerceFieldValue: no text for a word the kind of the field cannot be.
Coerced(t, word) ==
    LET kind == Kind(Pointee(t))
    IN CASE kind \in IntKinds \cup UintKinds \cup {"float"} -> IF word \in DOMAIN Numeral THEN {Integer(Numeral[word])} ELSE {}
         [] kind = "bool" -> {Bool(b) : b \in {b \in BOOLEAN : word = IF b THEN "true" ELSE "false"}}
         [] OTHER         -> {Str(word)}

elemTypeForList(t) == IF Kind(t) \in {"slice", "array"} THEN Under(t).elem ELSE t

Bounds == {"minimum", "maximum", "exclusiveMinimum", "exclusiveMaximum", "multipleOf"}

\* coerceNumericValue, requireStringTarget and its like.
Targets(option) ==
    CASE option \in Bounds                             -> IntKinds \cup UintKinds \cup {"float"}
      [] option \in {"minLength", "maxLength"}         -> {"string"}
      [] option \in {"minItems", "maxItems"}           -> {"slice", "array"}
      [] option \in {"minProperties", "maxProperties"} -> {"map", "struct"}

\* parseJSONSchemaTag: an option its field cannot have fails the generation.
OptionFits(option, value, t) ==
    CASE option = "required" -> TRUE
      [] option = "enum"     -> \A w \in value : Coerced(elemTypeForList(t), w) # {}
      [] option = "const"    -> Coerced(t, value) # {}
      [] OTHER               -> Kind(Pointee(t)) \in Targets(option)
TagFits(tag, t) == \A option \in DOMAIN tag : OptionFits(option, tag[option], t)

\* The tagSpec's assertions, as keywords.
Assertions(tag, t) ==
    [k \in DOMAIN tag \ {"required"} |->
        CASE k = "enum"  -> UNION {Coerced(elemTypeForList(t), w) : w \in tag[k]}
          [] k = "const" -> CHOOSE v \in Coerced(t, tag[k]) : TRUE
          [] OTHER       -> tag[k]]

\* Mutant: the assertions are put beside the anyOf, and null must meet them.
WrongApplyTag(s, tag, t) == Assertions(tag, t) @@ s

\* applyTagSpecToSchema: the assertions on a pointer are its element's.
ApplyTag(s, tag, t) ==
    IF IsWrapper(s) /\ DOMAIN tag \ {"required"} # {}
    THEN Wrap(Assertions(tag, t) @@ Unwrapped(s))
    ELSE Assertions(tag, t) @@ s

-----------------------------------------------------------------------------
(* jsonFields: the fields encoding/json encodes *)

\* fieldAt: what field i of the struct at e is; struct says that its type is
\* one, a pointer taken off.
FieldOf(e, i, sf, struct) ==
    [what |-> CASE sf.tag = "-" \/ (~sf.exported /\ ~(sf.embedded /\ struct)) -> "skipped"
                [] sf.embedded /\ struct /\ sf.tag = "" -> "embedded"
                [] OTHER -> "field",
     struct |-> IF sf.embedded /\ struct THEN Pointee(sf.type).name ELSE "",
     name |-> IF sf.tag = "" THEN sf.go ELSE sf.tag,
     tagged |-> sf.tag # "", index |-> Append(e.index, i),
     maybe |-> e.maybe \/ (sf.embedded /\ sf.type.kind = "ptr"), sf |-> sf]

IsStruct(sf) == Kind(IF sf.type.kind = "ptr" THEN sf.type.elem ELSE sf.type) = "struct"
fieldAt(e, i, sf) == FieldOf(e, i, sf, IsStruct(sf))

FieldsAt(e) == [i \in DOMAIN Decl[e.struct].type.fields |-> fieldAt(e, i, Decl[e.struct].type.fields[i])]
Outer(name) == [struct |-> name, index |-> <<>>, maybe |-> FALSE]

FirstOfEach(embeds) ==
    FoldLeft(LAMBDA seen, e : IF \E i \in DOMAIN seen : seen[i].struct = e.struct THEN seen ELSE Append(seen, e),
             <<>>, embeds)

IsEmbedded(f) == f.what = "embedded"
IsField(f) == f.what = "field"

\* Mutant: a type embedded twice at one depth counts once.
WrongCopies(fs, twice) == fs

\* A field of a type embedded more than once at its depth cancels itself out.
Copies(fs, twice) == IF twice THEN fs \o fs ELSE fs

Embeds(found) == SelectSeq(FlattenSeq(found), IsEmbedded)
Times(embeds) == [s \in DOMAIN Decl |-> Cardinality({i \in DOMAIN embeds : embeds[i].struct = s})]
FieldsOf(live, found, count) ==
    FlattenSeq([i \in DOMAIN live |-> Copies(SelectSeq(found[i], IsField), count[live[i].struct] > 1)])

\* One depth after the other; count is how often a type was embedded at the
\* depth above, and each type is visited once.
RECURSIVE Levels(_, _, _, _), Level(_, _, _, _, _)
Level(live, found, visited, count, fields) ==
    Levels(FirstOfEach(Embeds(found)), visited \cup {live[i].struct : i \in DOMAIN live},
           Times(Embeds(found)), fields \o FieldsOf(live, found, count))

Levels(current, visited, count, fields) ==
    LET live == SelectSeq(current, LAMBDA e : e.struct \notin visited)
    IN IF current = <<>> THEN fields
       ELSE Level(live, [i \in DOMAIN live |-> FieldsAt(live[i])], visited, count, fields)

\* Mutant: among fields of one depth a json tag makes no difference.
WrongHides(f, g) == Len(f.index) < Len(g.index)

Hides(f, g) == Len(f.index) < Len(g.index) \/ (Len(f.index) = Len(g.index) /\ f.tagged /\ ~g.tagged)

Before(a, b) ==
    \E k \in 1..Len(b) : /\ \A j \in 1..(k - 1) : j <= Len(a) /\ a[j] = b[j]
                         /\ k > Len(a) \/ a[k] < b[k]

Reordered(fields, order) == [i \in DOMAIN order |-> fields[order[i]]]

\* dominantFields: a field that hides all others of its name, in index order.
Dominant(fields) ==
    {i \in DOMAIN fields : \A j \in DOMAIN fields \ {i} :
        fields[j].name = fields[i].name => Hides(fields[i], fields[j])}
dominantFields(fields) ==
    Reordered(fields, SetToSortSeq(Dominant(fields), LAMBDA i, j : Before(fields[i].index, fields[j].index)))

jsonFields(name) == dominantFields(Levels(<<Outer(name)>>, {}, [s \in DOMAIN Decl |-> 0], <<>>))

-----------------------------------------------------------------------------
(* Definitions: genCtx.seenName, stack and defs *)

Undefined == "undefined" :> TRUE
Suffixed(base, i) == IF i = 1 THEN base ELSE base \o "_" \o ToString(i)

\* Mutant: another package's type of the same name is not looked for.
WrongDefName(base, c) == base

\* allocateDefName: the first of base, base_2, ... that defs does not hold.
DefName(base, c) ==
    Suffixed(base, CHOOSE i \in 1..(Cardinality(DOMAIN c.defs) + 1) :
        /\ Suffixed(base, i) \notin DOMAIN c.defs
        /\ \A j \in 1..(i - 1) : Suffixed(base, j) \in DOMAIN c.defs)

refToDef(name) == "$ref" :> name

\* A reference to t's definition, which its struct completes when it is walked.
Allocated(t, name, c) ==
    Made(refToDef(name), [c EXCEPT !.seen = (t.name :> name) @@ @,
                                   !.defs = IF name \in DOMAIN @ THEN @ ELSE (name :> Undefined) @@ @])

-----------------------------------------------------------------------------
(* schemaForType *)

Quotable == IntKinds \cup UintKinds \cup {"bool", "string", "float"}

\* quotedSchema for a field of type t, pointers taken off once.
QuotedSchema(kind) ==
    CASE kind = "bool"      -> Set(OfType({"string"}), "enum", {Str("true"), Str("false")})
      [] kind \in IntKinds  -> Set(OfType({"string"}), "pattern", "quotedIntPattern")
      [] kind \in UintKinds -> Set(OfType({"string"}), "pattern", "quotedUintPattern")
      [] kind = "float"     -> Set(OfType({"string"}), "pattern", "quotedFloatPattern")
      [] kind = "string"    -> OfType({"string"})

Once(t) == IF t.kind = "ptr" THEN t.elem ELSE t
IsQuoted(sf, o) ==
    /\ "string" \in sf.opts
    /\ Kind(Once(sf.type)) \in Quotable
    /\ ~\E how \in {"text", "json"} : Marshals(Once(sf.type), how)
    /\ ~(IsNamed(Once(sf.type)) /\ Once(sf.type).name \in o.emitters)

WellKnown == {"time.Time", "time.Duration", "json.Number", "json.RawMessage"}

\* tryWellKnown.
WellKnownSchema(name) ==
    CASE name = "time.Time"       -> OfType({"string"})
      [] name = "time.Duration"   -> OfType({"integer"})
      [] name = "json.Number"     -> OfType({"number", "string"})
      [] name = "json.RawMessage" -> Anything

\* What the emitter of a type in MC's Options gives: the type's own enumeration.
EmitterSchema(name) == "enum" :> {Str(Decl[name].base)}

RECURSIVE SchemaForType(_, _, _), SchemaForStruct(_, _, _, _, _, _)

\* tryRecursion applies to named types; only structs are on the stack.
TryRecursion(t, c) ==
    CASE t.name \in DOMAIN c.seen -> Made(refToDef(c.seen[t.name]), c)
      [] c.o.expanded             -> Refused(c)
      [] OTHER                    -> Allocated(t, DefName(Decl[t.name].base, c), c)

\* The schema of an array, a map or a pointer around its element's.
Around(inner, s) == IF inner.ok THEN Made(s, inner.c) ELSE inner

SchemaForMap(t, value) ==
    LET key == Under(t).key
        object == Set(OfType(nilable(t, "object")), "additionalProperties", value.s)
    IN CASE Kind(key) = "string" \/ Marshals(key, "text") -> Around(value, object)
         [] Kind(key) \in IntKinds  -> Around(value, Set(object, "propertyNames", "quotedIntPattern"))
         [] Kind(key) \in UintKinds -> Around(value, Set(object, "propertyNames", "quotedUintPattern"))
         [] OTHER                   -> Refused(value.c)

\* A []byte is base64, as a [N]byte is here, though encoding/json writes that
\* as an array of numbers.
SchemaForArray(t, item) == Around(item, Set(OfType(nilable(t, "array")), "items", item.s))
BytesSchema(t) == OfType(nilable(t, "string"))

dispatchKind(t, c) ==
    CASE Kind(t) = "bool"              -> Made(OfType({"boolean"}), c)
      [] Kind(t) \in IntKinds \cup UintKinds -> Made(IntegerSchema(Kind(t)), c)
      [] Kind(t) = "float"             -> Made(OfType({"number"}), c)
      [] Kind(t) = "string"            -> Made(OfType({"string"}), c)
      [] Kind(t) \in {"slice", "array"} ->
            IF Kind(Under(t).elem) = "uint8" THEN Made(BytesSchema(t), c)
            ELSE SchemaForArray(t, SchemaForType(Under(t).elem, c, FALSE))
      [] Kind(t) = "map"               -> SchemaForMap(t, SchemaForType(Under(t).elem, c, FALSE))
      [] Kind(t) = "struct"            ->
            SchemaForStruct(t, jsonFields(t.name), 1, [c EXCEPT !.stack = @ \cup {t.name}], Anything, {})
      [] Kind(t) = "interface"         -> Made(Anything, c)
      [] Kind(t) = "chan"              -> Refused(c)

SchemaForType(t, c, top) ==
    CASE IsNamed(t) /\ t.name \in c.o.emitters -> Made(EmitterSchema(t.name), c)
      [] t.kind = "ptr" -> \* tryPointer
            LET inner == SchemaForType(t.elem, c, top) IN Around(inner, nullablePointer(inner.s, c.o, top))
      [] IsNamed(t) /\ t.name \in WellKnown -> Made(WellKnownSchema(t.name), c)
      [] Marshals(t, "text") /\ Kind(t) # "struct" -> Made(OfType({"string"}), c)
      [] Marshals(t, "json") /\ Kind(t) # "struct" -> Made(Anything, c)
      [] IsNamed(t) /\ t.name \in DOMAIN c.seen \cup c.stack -> TryRecursion(t, c)
      [] OTHER -> dispatchKind(t, c)

\* collectStructFields: the schema of one field, before its tag is applied.
FieldSchema(sf, c) ==
    LET omits == sf.opts \cap {"omitempty", "omitzero"} # {}
        inner == IF IsQuoted(sf, c.o)
                 THEN LET q == QuotedSchema(Kind(Once(sf.type)))
                      IN Made(IF sf.type.kind = "ptr" THEN nullablePointer(q, c.o, FALSE) ELSE q, c)
                 ELSE SchemaForType(sf.type, c, FALSE)
    IN Around(inner,
              CASE Kind(sf.type) \in {"slice", "map"} /\ omits -> dropNull(inner.s)
                [] Kind(sf.type) = "ptr" -> omitsNilPointer(inner.s, c.o, omits)
                [] OTHER -> inner.s)

\* The struct's schema, and t off the stack: in its definition if t has one by now.
StructSchema(t, c, props, required) ==
    LET m == (IF DOMAIN props = {} THEN Anything ELSE "properties" :> props)
             @@ (IF required = {} THEN Anything ELSE "required" :> required)
             @@ (IF c.o.closed THEN "closed" :> TRUE ELSE Anything)
             @@ OfType({"object"})
        left == [c EXCEPT !.stack = @ \ {t.name}]
    IN IF ~c.o.expanded /\ t.name \in DOMAIN c.seen
       THEN Made(refToDef(c.seen[t.name]), [left EXCEPT !.defs[c.seen[t.name]] = m])
       ELSE Made(m, left)

\* schemaForStruct, from field i on.
SchemaForStruct(t, fields, i, c, props, required) ==
    IF i > Len(fields) THEN StructSchema(t, c, props, required)
    ELSE LET f == fields[i]
             field == FieldSchema(f.sf, c)
             needs == "required" \in DOMAIN f.sf.tags /\ "omitempty" \notin f.sf.opts
         IN IF ~TagFits(f.sf.tags, f.sf.type) \/ ~field.ok THEN Refused(c)
            ELSE SchemaForStruct(t, fields, i + 1, field.c,
                                 Set(props, f.name, ApplyTag(field.s, f.sf.tags, f.sf.type)),
                                 IF needs THEN required \cup {f.name} ELSE required)

bytesFromType(t, o) ==
    SchemaForType(t, [o |-> o, seen |-> Anything, stack |-> {}, defs |-> Anything], TRUE)

-----------------------------------------------------------------------------
(* What encoding/json writes, and the tags ask for *)

\* Every field reachable through embedded structs, three deep.
RECURSIVE Promoted(_, _)
Promoted(e, bound) ==
    LET found == {FieldsAt(e)[i] : i \in DOMAIN FieldsAt(e)}
    IN {f \in found : IsField(f)} \cup
       (IF bound = 0 THEN {} ELSE UNION {Promoted(f, bound - 1) : f \in {f \in found : IsEmbedded(f)}})

\* Go's rule as encoding/json states it: of the fields with a name, those
\* least deep; of these the tagged ones, if there are any; and one if it is alone.
Shallowest(same) == {f \in same : \A g \in same : Len(f.index) <= Len(g.index)}
PreferTagged(shallow) == IF \E f \in shallow : f.tagged THEN {f \in shallow : f.tagged} ELSE shallow
Visible(all) ==
    {f \in all : PreferTagged(Shallowest({g \in all : g.name = f.name})) = {f}}

VisibleFields(name) == Visible(Promoted(Outer(name), 3))

\* A value of a Go type: what is written for it, whether omitempty finds it
\* empty and whether it is its type's zero value.
Value(v, empty, zero) == [v |-> v, empty |-> empty, zero |-> zero]
Nil == Value(Null, TRUE, TRUE)
Plain(v) == Value(v, FALSE, FALSE)

Quoted(v) ==
    CASE v.t = "integer" -> Str(Spelled(v.int))
      [] v.t = "boolean" -> Str(IF v.bool THEN "true" ELSE "false")
      [] v.t = "number"  -> Str(v.float)
      [] OTHER           -> v

\* The members a field may add to its object: one, or none when it is omitted
\* or lies behind a nil embedded pointer.
Written(f, values) ==
    LET quoted == IsQuoted(f.sf, [emitters |-> {}])
        omitted(w) == \/ "omitempty" \in f.sf.opts /\ w.empty
                      \/ "omitzero" \in f.sf.opts /\ w.zero
    IN {[members |-> IF omitted(w) THEN Anything ELSE f.name :> (IF quoted THEN Quoted(w.v) ELSE w.v),
         zero |-> w.zero] : w \in values}
       \cup (IF f.maybe THEN {[members |-> Anything, zero |-> TRUE]} ELSE {})

RECURSIVE GoValues(_, _, _)
GoValues(t, n, o) ==
    LET kind == Kind(t)
        inner(type) == IF n = 0 THEN {} ELSE GoValues(type, n - 1, o)
    IN CASE IsNamed(t) /\ t.name \in o.emitters -> {Plain(Str(Decl[t.name].base))}
         [] t = Named("time.Time")       -> {Value(Str("time"), FALSE, TRUE)}
         [] t = Named("json.Number")     -> {Value(Integer(0), TRUE, TRUE), Plain(Float("1.5"))}
         [] t = Named("json.RawMessage") -> {Nil, Plain(Bool(TRUE))}
         [] Marshals(t, "text")          -> {Plain(Str("tm"))}
         [] Marshals(t, "json")          -> {Plain(Bool(TRUE))}
         [] kind = "bool"   -> {Value(Bool(FALSE), TRUE, TRUE), Plain(Bool(TRUE))}
         [] kind \in IntKinds \cup UintKinds ->
               {Value(Integer(0), TRUE, TRUE), Plain(Integer(Low(kind))), Plain(Integer(High(kind)))}
         [] kind = "float"  -> {Value(Integer(0), TRUE, TRUE), Plain(Float("1.5"))}
         [] kind = "string" -> {Value(Str(""), TRUE, TRUE), Plain(Str("red"))}
         [] kind = "interface" -> {Nil, Plain(Bool(TRUE))}
         [] kind = "ptr"    -> (IF o.nullable = "false" THEN {} ELSE {Nil})
                               \cup {Plain(w.v) : w \in inner(t.elem)}
         [] kind = "slice" /\ Kind(Under(t).elem) = "uint8" -> {Nil, Value(Str(""), TRUE, FALSE)}
         [] kind = "slice"  -> {Nil, Value(Array(<<>>), TRUE, FALSE)}
                               \cup {Plain(Array(<<w.v>>)) : w \in inner(Under(t).elem)}
         [] kind = "array"  -> {Value(Array(<<w.v>>), FALSE, w.zero) : w \in GoValues(Under(t).elem, n, o)}
         [] kind = "map"    -> {Nil, Value(Object(Anything), TRUE, FALSE)}
                               \cup {Plain(Object(k :> w.v)) : w \in inner(Under(t).elem),
                                        k \in CASE Kind(Under(t).key) \in IntKinds -> {"-200"}
                                                [] Kind(Under(t).key) \in UintKinds -> {"200"}
                                                [] OTHER -> {"key"}}
         [] kind = "struct" ->
               {Value(Object(w.members), FALSE, w.zero) : w \in
                   FoldSet(LAMBDA f, some : {[members |-> a.members @@ b.members, zero |-> a.zero /\ b.zero] :
                                                a \in Written(f, GoValues(f.sf.type, n, o)), b \in some},
                           {[members |-> Anything, zero |-> TRUE]}, VisibleFields(t.name))}

\* The tag of a field is met by what is written for it; of a list's enum, by
\* each item; null, for a nil value, meets any.
EnumMet(allowed, v) == IF v.t = "array" THEN \A i \in DOMAIN v.items : v.items[i] \in allowed ELSE v \in allowed
TagMet(tag, t, v) ==
    v = Null \/ \A k \in DOMAIN tag \ {"required"} :
        IF k = "enum" THEN EnumMet(Assertions(tag, t)[k], v) ELSE Accepts(k :> Assertions(tag, t)[k], v, Anything)

RECURSIVE Meets(_, _)
Meets(t, v) ==
    CASE v = Null \/ (IsNamed(t) /\ (t.name \in WellKnown \/ Decl[t.name].marshals # "no")) -> TRUE
      [] Kind(t) = "ptr" -> Meets(t.elem, v)
      [] Kind(t) \in {"slice", "array"} /\ v.t = "array" ->
            \A i \in DOMAIN v.items : Meets(Under(t).elem, v.items[i])
      [] Kind(t) = "map" -> \A p \in DOMAIN v.members : Meets(Under(t).elem, v.members[p])
      [] Kind(t) = "struct" ->
            \A f \in VisibleFields(t.name) :
                IF f.name \in DOMAIN v.members
                THEN TagMet(f.sf.tags, f.sf.type, v.members[f.name]) /\ Meets(f.sf.type, v.members[f.name])
                ELSE "required" \notin DOMAIN f.sf.tags \/ "omitempty" \in f.sf.opts
      [] OTHER -> TRUE

-----------------------------------------------------------------------------
(* Generating, and writing a value *)

Init ==
    /\ goType \in Root
    /\ options \in Options
    /\ doc = <<>>
    /\ text = <<>>

Generate ==
    /\ doc = <<>>
    /\ doc' = <<bytesFromType(goType, options)>>
    /\ UNCHANGED <<goType, options, text>>

\* The root type is not nullable.
Marshal ==
    /\ doc # <<>>
    /\ doc[1].ok
    /\ text = <<>>
    /\ \E w \in GoValues(Pointee(goType), Depth, options) : text' = <<w.v>>
    /\ UNCHANGED <<goType, options, doc>>

Next == Generate \/ Marshal

Spec == Init /\ [][Next]_vars

-----------------------------------------------------------------------------
(* Properties *)

Generated == doc # <<>> /\ doc[1].ok

\* What encoding/json writes for a value of the type validates against the
\* type's own schema exactly when the value meets the tags of its fields.
OwnJSONValid ==
    (Generated /\ text # <<>>) =>
        (Accepts(doc[1].s, text[1], doc[1].c.defs) <=> Meets(Pointee(goType), text[1]))

\* A field's schema takes null exactly if a value of the type has null written
\* for the field: no omitted field and no field that is never nil takes it.
FieldTakesNull(f, s, defs) == Accepts(s["properties"][f.name], Null, defs)

NullsExact ==
    (Generated /\ text = <<>> /\ options.nullable = "unset" /\ Kind(Pointee(goType)) = "struct") =>
        LET defs == doc[1].c.defs
            s == IF "$ref" \in DOMAIN doc[1].s THEN defs[doc[1].s["$ref"]] ELSE doc[1].s
        IN \A f \in {f \in VisibleFields(Pointee(goType).name) : ~Marshals(f.sf.type, "json")} :
              FieldTakesNull(f, s, defs) <=>
                  \E w \in Written(f, GoValues(f.sf.type, Depth, options)) :
                      f.name \in DOMAIN w.members /\ w.members[f.name] = Null

\* The fields described are those Go makes visible, embedding by embedding.
Indices(fields) == {f.index : f \in fields}

FieldsAgree ==
    (doc = <<>> /\ Kind(Pointee(goType)) = "struct") =>
        Indices(ToSet(jsonFields(Pointee(goType).name))) = Indices(VisibleFields(Pointee(goType).name))

\* Each type that is referred to has one definition, of its own, that was
\* completed, and the stack is empty when the walk ends.
DefinitionsComplete ==
    Generated =>
        LET c == doc[1].c
        IN /\ c.stack = {}
           /\ \A s, t \in DOMAIN c.seen : c.seen[s] = c.seen[t] => s = t
           /\ DOMAIN c.defs = {c.seen[t] : t \in DOMAIN c.seen}
           /\ \A name \in DOMAIN c.defs : "undefined" \notin DOMAIN c.defs[name]
           /\ c.o.expanded => DOMAIN c.seen = {}
=============================================================================
