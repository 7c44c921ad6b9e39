------------------------------ MODULE Semantics ------------------------------
(***************************************************************************)
(* What a schema says of an instance, as JSON Schema defines it and with    *)
(* none of the evaluator's order, early exits, buffers or flags: a          *)
(* reference for Evaluator.  It is defined for schemas whose references do  *)
(* not return to themselves at one instance location.                       *)
(***************************************************************************)
EXTENDS Integers, Sequences, FiniteSets

CONSTANTS Schema, Instance, NameValue, Dynamic, Recursive, None

LOCAL Kw(s, k) == Schema[s].kws[k]
LOCAL Has(s, k) == k \in DOMAIN Schema[s].kws
LOCAL IsArray(v) == Instance[v].kind = "array"

\* The parts of a value: property names or item positions.
Parts(v) ==
    CASE Instance[v].kind = "object" -> DOMAIN Instance[v].members
      [] Instance[v].kind = "array" -> DOMAIN Instance[v].items
      [] OTHER -> {}
Part(v, p) == IF IsArray(v) THEN Instance[v].items[p] ELSE Instance[v].members[p]
Names(v) == IF Instance[v].kind = "object" THEN Parts(v) ELSE {}
Positions(v) == IF IsArray(v) THEN Parts(v) ELSE {}

Scope(s, d) == IF Schema[s].crosses THEN Append(d, Schema[s].resource) ELSE d

\* The outermost resource of d that defines the dynamic target, if any does.
Outermost(d, targets) ==
    LET at == {i \in DOMAIN d : d[i] \in DOMAIN targets}
    IN targets[d[CHOOSE i \in at : \A j \in at : i <= j]]

Target(s, k, d) ==
    LET kw == Kw(s, k)
        named == {r \in DOMAIN Dynamic : kw.name \in DOMAIN Dynamic[r]}
        inScope(rs) == \E i \in DOMAIN d : d[i] \in rs
    IN CASE k = "$dynamicRef" /\ kw.name # None /\ inScope(named) ->
              Outermost(d, [r \in named |-> Dynamic[r][kw.name]])
         [] k = "$recursiveRef" /\ kw.resource \in DOMAIN Recursive
                /\ inScope(DOMAIN Recursive) -> Outermost(d, Recursive)
         [] OTHER -> kw.target

\* The parts that keyword k of s applies its own schemas to.
Applies(s, k, v) ==
    LET kw == Kw(s, k)
        tuple == IF Has(s, "items") /\ Kw(s, "items").isPrefix THEN Len(Kw(s, "items").subs) ELSE -1
        prefix == IF Has(s, "prefixItems") THEN Len(Kw(s, "prefixItems")) ELSE 0
        named == IF Has(s, "properties") THEN DOMAIN Kw(s, "properties") ELSE {}
        matched == IF Has(s, "patternProperties")
                   THEN UNION {Kw(s, "patternProperties")[i].matches :
                                 i \in DOMAIN Kw(s, "patternProperties")}
                   ELSE {}
    IN CASE k = "properties" -> named \cap Names(v)
         [] k = "patternProperties" -> matched \cap Names(v)
         [] k = "additionalProperties" -> Names(v) \ (named \cup matched)
         [] k = "prefixItems" -> {i \in Positions(v) : i <= prefix}
         [] k = "items" /\ kw.isPrefix -> {i \in Positions(v) : i <= tuple}
         [] k = "items" /\ ~kw.isPrefix -> {i \in Positions(v) : i > prefix}
         [] k = "additionalItems" -> {i \in Positions(v) : tuple >= 0 /\ i > tuple}
         [] OTHER -> {}

RECURSIVE Valid(_, _, _), Seen(_, _, _), Holds(_, _, _, _), Learns(_, _, _, _)

\* Value v is valid under s in dynamic scope d.
Valid(s, v, d) ==
    IF Schema[s].bool # None THEN Schema[s].bool
    ELSE \A k \in DOMAIN Schema[s].kws : Holds(s, k, v, Scope(s, d))

\* The parts of v that s evaluates when it is valid: what unevaluated* of a
\* schema s is part of do not apply to.
Seen(s, v, d) ==
    IF Schema[s].bool # None \/ ~Valid(s, v, d) THEN {}
    ELSE UNION {Learns(s, k, v, Scope(s, d)) : k \in DOMAIN Schema[s].kws}

Adjacent(s, v, d) ==
    UNION {Learns(s, k, v, d) : k \in DOMAIN Schema[s].kws \ {"unevaluatedItems", "unevaluatedProperties"}}

Holds(s, k, v, d) ==
    LET kw == Kw(s, k)
        all(parts, sub(_)) == \A p \in parts : Valid(sub(p), Part(v, p), d)
        lacks(names) == IF Instance[v].kind # "object" THEN {}
                        ELSE {names[i] : i \in DOMAIN names} \ Names(v)
        holding == {i \in Positions(v) : Valid(kw.sub, Part(v, i), d)}
    IN CASE k = "type" -> v \notin kw
         [] k \in {"$ref", "$dynamicRef", "$recursiveRef"} -> Valid(Target(s, k, d), v, d)
         [] k = "allOf" -> \A i \in DOMAIN kw : Valid(kw[i], v, d)
         [] k = "anyOf" -> \E i \in DOMAIN kw : Valid(kw[i], v, d)
         [] k = "oneOf" -> Cardinality({i \in DOMAIN kw : Valid(kw[i], v, d)}) = 1
         [] k = "not" -> ~Valid(kw, v, d)
         [] k = "if" ->
              IF Valid(kw.cond, v, d) THEN kw.then = None \/ Valid(kw.then, v, d)
              ELSE kw.else = None \/ Valid(kw.else, v, d)
         [] k = "required" -> lacks(kw) = {}
         [] k = "dependentRequired" -> \A n \in DOMAIN kw \cap Names(v) : lacks(kw[n]) = {}
         [] k = "dependencies" ->
              /\ \A n \in DOMAIN kw.schemas \cap Names(v) : Valid(kw.schemas[n], v, d)
              /\ \A n \in DOMAIN kw.required \cap Names(v) : lacks(kw.required[n]) = {}
         [] k = "dependentSchemas" -> \A n \in DOMAIN kw \cap Names(v) : Valid(kw[n], v, d)
         [] k = "properties" -> all(Applies(s, k, v), LAMBDA n : kw[n])
         [] k = "patternProperties" ->
              \A i \in DOMAIN kw : all(kw[i].matches \cap Names(v), LAMBDA n : kw[i].sub)
         [] k = "propertyNames" -> \A n \in Names(v) : Valid(kw, NameValue[n], d)
         [] k = "prefixItems" -> all(Applies(s, k, v), LAMBDA i : kw[i])
         [] k = "items" -> all(Applies(s, k, v), LAMBDA i : IF kw.isPrefix THEN kw.subs[i] ELSE kw.sub)
         [] k \in {"additionalProperties", "additionalItems"} -> all(Applies(s, k, v), LAMBDA p : kw)
         [] k = "contains" ->
              IsArray(v) => /\ Cardinality(holding) >= kw.min
                            /\ kw.max = None \/ Cardinality(holding) <= kw.max
         [] k = "unevaluatedProperties" -> all(Names(v) \ Adjacent(s, v, d), LAMBDA p : kw)
         [] k = "unevaluatedItems" -> all(Positions(v) \ Adjacent(s, v, d), LAMBDA p : kw)
         [] OTHER -> TRUE

Learns(s, k, v, d) ==
    LET kw == Kw(s, k)
        from(subs) == UNION {Seen(t, v, d) : t \in subs \ {None}}
    IN CASE k \in {"$ref", "$dynamicRef", "$recursiveRef"} -> from({Target(s, k, d)})
         [] k \in {"allOf", "anyOf", "oneOf"} -> from({kw[i] : i \in DOMAIN kw})
         [] k = "if" ->
              IF Valid(kw.cond, v, d) THEN from({kw.cond, kw.then}) ELSE from({kw.else})
         [] k = "dependentSchemas" -> from({kw[n] : n \in DOMAIN kw \cap Names(v)})
         [] k = "dependencies" -> from({kw.schemas[n] : n \in DOMAIN kw.schemas \cap Names(v)})
         [] k = "contains" -> {i \in Positions(v) : Valid(kw.sub, Part(v, i), d)}
         [] k = "unevaluatedProperties" -> Names(v)
         [] k = "unevaluatedItems" -> Positions(v)
         [] OTHER -> Applies(s, k, v)
=============================================================================
