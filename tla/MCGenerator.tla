------------------------------ MODULE MCGenerator ------------------------------
(* Go types for Generator, each for a rule the walk or encoding/json has.    *)
EXTENDS Generator

Basic(kind) == [kind |-> kind]
Slice(t) == [kind |-> "slice", elem |-> t]
ArrayOf(t) == [kind |-> "array", elem |-> t]
Ptr(t) == [kind |-> "ptr", elem |-> t]
Map(key, t) == [kind |-> "map", key |-> key, elem |-> t]
Struct(fields) == [kind |-> "struct", fields |-> fields]

FieldWith(go, tag, opts, type, tags) ==
    [go |-> go, tag |-> tag, opts |-> opts, type |-> type, tags |-> tags,
     embedded |-> FALSE, exported |-> TRUE]
Field(go, tag, opts, type) == FieldWith(go, tag, opts, type, Anything)
Hidden(go, type) == [Field(go, "", {}, type) EXCEPT !.exported = FALSE]
Embed(name, type) == [Field(name, "", {}, type) EXCEPT !.embedded = TRUE]
EmbedHidden(name, type) == [Embed(name, type) EXCEPT !.exported = FALSE]

Type(base, type) == [base |-> base, type |-> type, marshals |-> "no"]
WithMethod(how, decl) == [decl EXCEPT !.marshals = how]
Of(name, fields) == name :> Type(name, Struct(fields))

Standard ==
    "time.Time" :> WithMethod("json", Type("Time", Struct(<<>>)))
    @@ "time.Duration" :> Type("Duration", Basic("int"))
    @@ "json.Number" :> Type("Number", Basic("string"))
    @@ "json.RawMessage" :> Type("RawMessage", Slice(Basic("uint8")))
    @@ "Color" :> WithMethod("text", Type("Color", Basic("int")))
    @@ "Blob" :> WithMethod("json", Type("Blob", Slice(Basic("string"))))
    @@ "Emitted" :> Type("Emitted", Basic("string"))
    @@ "Level" :> Type("Level", Basic("int8"))

Recursive ==
    Of("Node", <<Field("Val", "v", {}, Basic("int8")), Field("Next", "next", {}, Ptr(Named("Node"))),
                 Field("Kids", "kids", {"omitempty"}, Slice(Ptr(Named("Node"))))>>)
    @@ Of("A", <<Field("B", "", {}, Ptr(Named("B"))), Field("All", "", {}, Map(Basic("string"), Named("B")))>>)
    @@ Of("B", <<Field("A", "", {"omitempty"}, Ptr(Named("A"))), Field("N", "", {}, Basic("bool"))>>)
    @@ "other.Node" :> Type("Node", Struct(<<Field("Up", "up", {}, Ptr(Named("other.Node"))),
                                              Field("S", "s", {}, Basic("string"))>>))
    @@ "Node_2" :> Type("Node_2", Struct(<<Field("Same", "same", {"omitzero"}, Ptr(Named("Node_2")))>>))
    @@ Of("Nodes", <<Field("One", "one", {}, Slice(Ptr(Named("Node")))), Field("Two", "two", {}, Ptr(Named("other.Node"))),
                     Field("Three", "three", {}, Ptr(Named("Node_2"))), Field("Four", "four", {}, Slice(Ptr(Named("Node"))))>>)

Nilable ==
    Of("Nils", <<Field("L", "l", {}, Slice(Basic("bool"))), Field("OL", "ol", {"omitempty"}, Slice(Basic("bool"))),
                 Field("M", "m", {}, Map(Basic("int"), Basic("bool"))),
                 Field("OM", "om", {"omitzero"}, Map(Basic("uint8"), Slice(Basic("bool"))))>>)
    @@ Of("Bytes", <<Field("B", "b", {}, Slice(Basic("uint8"))), Field("Fixed", "fixed", {}, ArrayOf(Basic("int"))),
                     Field("Raw", "raw", {}, Named("json.RawMessage")), Field("Any", "any", {}, Basic("interface"))>>)
    @@ Of("Ptrs", <<Field("P", "p", {}, Ptr(Basic("bool"))), Field("OP", "op", {"omitempty"}, Ptr(Basic("bool"))),
                    Field("PP", "pp", {"omitempty"}, Ptr(Ptr(Basic("bool")))),
                    Field("PL", "pl", {"omitempty"}, Ptr(Slice(Basic("bool"))))>>)
    @@ Of("Known", <<Field("T", "t", {}, Named("time.Time")), Field("D", "d", {}, Named("time.Duration")),
                     Field("N", "n", {}, Named("json.Number")), Field("E", "e", {}, Ptr(Named("Emitted")))>>)
    @@ Of("Marshalers", <<Field("C", "c", {"string"}, Named("Color")), Field("O", "o", {}, Slice(Named("Blob"))),
                          Field("K", "k", {}, Map(Named("Color"), Named("Level")))>>)

Quotes ==
    Of("Quoted", <<Field("I", "i", {"string"}, Basic("int")), Field("U", "u", {"string"}, Ptr(Basic("uint"))),
                   Field("B", "b", {"string"}, Basic("bool"))>>)
    @@ Of("Quoted2", <<Field("F", "f", {"string", "omitempty"}, Ptr(Basic("float"))),
                       Field("S", "s", {"string"}, Basic("string")), Field("L", "l", {"string"}, Slice(Basic("uint")))>>)

Embedding ==
    Of("Base", <<Field("Name", "name", {}, Basic("bool")), Field("Only", "only", {}, Basic("bool"))>>)
    @@ Of("base", <<Field("X", "x", {}, Basic("bool"))>>)
    @@ Of("Left", <<Field("Dup", "", {}, Basic("bool")), Field("Bare", "", {}, Basic("bool"))>>)
    @@ Of("Right", <<Field("Dup", "", {}, Basic("string")), Field("B2", "Bare", {}, Basic("string"))>>)
    @@ Of("Shadow", <<Field("Name", "name", {}, Basic("string")), Embed("Base", Named("Base")),
                      Field("Not", "-", {}, Basic("chan")), Hidden("h", Basic("chan"))>>)
    @@ Of("Ambiguous", <<Embed("Left", Named("Left")), Embed("Right", Named("Right")), EmbedHidden("base", Named("base")),
                         EmbedHidden("color", Named("Color"))>>)
    @@ Of("SelfEmbed", <<Embed("SelfEmbed", Ptr(Named("SelfEmbed"))), Field("V", "v", {}, Basic("bool"))>>)
    @@ Of("OneSide", <<Embed("Base", Ptr(Named("Base")))>>)
    @@ Of("OtherSide", <<Embed("Base", Named("Base")), Field("Z", "z", {}, Basic("bool"))>>)
    @@ Of("Diamond", <<Embed("OneSide", Named("OneSide")), Embed("OtherSide", Named("OtherSide"))>>)
    @@ Of("TaggedEmbed", <<[Embed("Base", Named("Base")) EXCEPT !.tag = "inner"], Embed("Level", Named("Level"))>>)

Required == "required" :> TRUE
Tagged ==
    Of("Tags", <<FieldWith("S", "s", {}, Ptr(Basic("string")), "enum" :> {"red", "blue"}),
                 FieldWith("I", "i", {}, Basic("int"), "minimum" :> 0 @@ "maximum" :> 127 @@ Required),
                 FieldWith("C", "c", {}, Ptr(Basic("bool")), "const" :> "true"),
                 FieldWith("N", "n", {"omitempty"}, Basic("string"), "minLength" :> 1 @@ Required)>>)
    @@ Of("Tags2", <<FieldWith("L", "l", {}, Slice(Basic("bool")), "minItems" :> 1),
                     FieldWith("E", "e", {}, Ptr(Basic("int8")), "enum" :> {"0", "127"} @@ Required),
                     FieldWith("PP", "pp", {}, Ptr(Ptr(Basic("int"))), "minimum" :> 0)>>)
    @@ Of("Roles", <<FieldWith("Roles", "roles", {}, Slice(Basic("string")),
                               "minItems" :> 1 @@ "enum" :> {"red", "blue"})>>)

Errors ==
    Of("BadTag", <<FieldWith("S", "s", {}, Basic("string"), "minimum" :> 0)>>)
    @@ Of("BadWord", <<FieldWith("I", "i", {}, Basic("int"), "enum" :> {"red"})>>)
    @@ Of("BadKind", <<Field("C", "c", {}, Basic("chan"))>>)
    @@ Of("BadKey", <<Field("M", "m", {}, Map(Basic("bool"), Basic("int")))>>)

MCDecl == Standard @@ Recursive @@ Nilable @@ Quotes @@ Embedding @@ Tagged @@ Errors

MCRoot ==
    {Named(name) : name \in {"Node", "A", "B", "Nodes", "Nils", "Bytes", "Ptrs", "Known", "Marshalers", "Quoted",
        "Quoted2", "Shadow", "Ambiguous", "SelfEmbed", "OneSide", "Diamond", "TaggedEmbed", "Tags", "Tags2",
        "BadTag", "BadWord", "BadKind", "BadKey", "Level"}}
    \cup {Ptr(Named("Node")), Slice(Ptr(Named("Level"))), Map(Named("Color"), Ptr(Named("Node")))}

\* The Roles field of the example in generate/doc.go.
RolesRoot == {Named("Roles")}

MCOptions ==
    [nullable : {"unset", "true", "false"}, expanded : BOOLEAN, closed : BOOLEAN, emitters : {{"Emitted"}}]

\* generate/doc.go's example gives a list of strings "minItems=1,
\* enum=admin|editor|viewer": a list with one item of the options validates.
OptionListsValid ==
    (Generated /\ text # <<>> /\ text[1].members["roles"].t = "array" /\ Meets(goType, text[1])) =>
        Accepts(doc[1].s, text[1], doc[1].c.defs)
=============================================================================
