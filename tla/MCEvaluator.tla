----------------------------- MODULE MCEvaluator -----------------------------
(***************************************************************************)
(* Schemas and instances for TLC to validate with.  A subschema is named by *)
(* a tuple of strings; the catalogue is every combination of one or two     *)
(* applicators over a pool of small subschemas, with and without            *)
(* unevaluated*, for objects and for arrays.                                *)
(***************************************************************************)
EXTENDS MCSchemas

\* Instances
MCKeyOrder == << "a", "b" >>
MCNameValue == [a |-> "x", b |-> "y"]

Objects == [
    ax |-> Object([a |-> "x"]),
    bx |-> Object([b |-> "x"]),
    axby |-> Object([a |-> "x", b |-> "y"]),
    aybx |-> Object([a |-> "y", b |-> "x"]),
    nested |-> Object([a |-> "inner"])]
Arrays == [
    justx |-> Array(<< "x" >>),
    yx |-> Array(<< "y", "x" >>),
    xyx |-> Array(<< "x", "y", "x" >>),
    list |-> Array(<< "row" >>)]
Inside == [x |-> Scalar, y |-> Scalar,
           inner |-> Object([b |-> "x"]), row |-> Array(<< "x" >>)]

ObjectDocuments == DOMAIN Objects
ArrayDocuments == DOMAIN Arrays
MCValue == DOMAIN Objects \cup DOMAIN Arrays \cup DOMAIN Inside
MCInstance ==
    [v \in MCValue |-> IF v \in DOMAIN Objects THEN Objects[v]
                       ELSE IF v \in DOMAIN Arrays THEN Arrays[v] ELSE Inside[v]]
MCHeight ==
    [v \in MCValue |-> CASE v \in {"x", "y"} -> 0 [] v \in {"inner", "row"} -> 1 [] OTHER -> 2]

-----------------------------------------------------------------------------
\* Small schemas

T == << "T" >>
F == << "F" >>
X == << "X" >>

NotX == MCValue \ {"x"}

Leaves == [T |-> Boolean(TRUE), F |-> Boolean(FALSE), X |-> Plain([type |-> NotX])]

ObjectPool == [
    propA |-> Plain([properties |-> [a |-> X]]),
    propB |-> Plain([properties |-> [b |-> X]]),
    requiredB |-> Plain([required |-> << "a", "b" >>, title |-> None]),
    needs |-> Plain([dependencies |-> [schemas |-> [b |-> << "propA" >>], required |-> [a |-> << "b" >>]]]),
    patternA |-> Plain([patternProperties |-> << [matches |-> {"a"}, sub |-> T],
                                                [matches |-> {"a", "b"}, sub |-> X] >>]),
    additional |-> Plain([properties |-> [a |-> T], additionalProperties |-> X]),
    closed |-> Plain([properties |-> [a |-> T], unevaluatedProperties |-> F, title |-> None]),
    names |-> Plain([propertyNames |-> X])]

ArrayPool == [
    itemsX |-> Plain([items |-> ItemsSchema(X)]),
    prefixX |-> Plain([prefixItems |-> << X >>]),
    restX |-> Plain([prefixItems |-> << T >>, items |-> ItemsSchema(X)]),
    tupleX |-> Plain([items |-> ItemsArray(<< T >>), additionalItems |-> X]),
    containsX |-> Plain([contains |-> [sub |-> X, min |-> 1, max |-> None]]),
    atMost1 |-> Plain([contains |-> [sub |-> X, min |-> 0, max |-> 1]]),
    closedItems |-> Plain([prefixItems |-> << T >>, unevaluatedItems |-> F, title |-> None])]

-----------------------------------------------------------------------------
\* Combinations: <<operator, open or closed, two operands>>, and operator over
\* an operand and a combination, <<operator, open or closed, operand, operator,
\* two operands>>.  A closed one has unevaluatedProperties and
\* unevaluatedItems false.

Combined(op, p, q) ==
    CASE op \in {"allOf", "anyOf", "oneOf"} -> Only(op, << p, q >>)
      [] op = "not" -> [not |-> p, allOf |-> << q >>]
      [] op = "if" -> Only("if", [cond |-> p, then |-> q, else |-> None])
      [] op = "else" -> Only("if", [cond |-> p, then |-> None, else |-> q])
      [] op = "$ref" -> And(Only("$ref", [target |-> p]), [anyOf |-> << q >>])
      [] op = "dependentSchemas" -> [dependentSchemas |-> [a |-> p, b |-> q]]

Ops == {"allOf", "anyOf", "oneOf", "not", "if", "else", "$ref", "dependentSchemas"}
Closing == [open |-> [n \in {} |-> None], closed |-> [unevaluatedProperties |-> F, unevaluatedItems |-> F]]
ObjectNames == DOMAIN ObjectPool
ArrayNames == DOMAIN ArrayPool

Singles(names) == {<< n >> : n \in names}
Pairs(names) == Ops \X (DOMAIN Closing) \X names \X names
Triples(names) ==
    {"allOf", "anyOf", "oneOf"} \X {"closed"} \X names \X {"allOf", "anyOf", "oneOf", "if"}
        \X names \X names

MCSub ==
    Singles(DOMAIN Leaves) \cup Singles(ObjectNames) \cup Singles(ArrayNames)
        \cup Pairs(ObjectNames) \cup Pairs(ArrayNames)
        \cup Triples(ObjectNames) \cup Triples(ArrayNames)

SchemaOf(name) ==
    CASE Len(name) = 1 -> IF name[1] \in DOMAIN Leaves THEN Leaves[name[1]]
                          ELSE IF name[1] \in ObjectNames THEN ObjectPool[name[1]]
                          ELSE ArrayPool[name[1]]
      [] Len(name) = 4 -> Plain(And(Combined(name[1], << name[3] >>, << name[4] >>), Closing[name[2]]))
      [] Len(name) = 6 -> Plain(And(Combined(name[1], << name[3] >>, << name[4], "open", name[5], name[6] >>),
                                    Closing[name[2]]))

MCSchema == [name \in MCSub |-> SchemaOf(name)]

ObjectRoots == Singles(ObjectNames) \cup Pairs(ObjectNames)
ArrayRoots == Singles(ArrayNames) \cup Pairs(ArrayNames)
NestedRoots ==
    Triples({"propA", "propB", "requiredB"}) \cup Triples({"prefixX", "containsX", "itemsX"})
FewDocuments == {"bx", "axby", "aybx", "yx", "xyx"}

\* The ways of ending early, with limits that no schema of the catalogue
\* reaches but for the budget.
Unlimited ==
    [stop |-> FALSE, collect |-> TRUE, maxErrors |-> 0, limit |-> -1,
     maxDepth |-> 20, maxRefDepth |-> 20, maxKeyCount |-> 0]
RunOptions ==
    {[Unlimited EXCEPT !.maxErrors = 1],
     [Unlimited EXCEPT !.stop = TRUE],
     [Unlimited EXCEPT !.collect = FALSE],
     [Unlimited EXCEPT !.collect = FALSE, !.limit = 12]}

Cases ==
    (ObjectRoots \X ObjectDocuments) \cup (ArrayRoots \X ArrayDocuments) \cup (NestedRoots \X FewDocuments)
MCValidations == {<< c[1], c[2], o >> : c \in Cases, o \in RunOptions}

NoResources == <<>>

-----------------------------------------------------------------------------
Reference == INSTANCE Semantics

Meaning(s, v) == Reference!Valid(s, v, << Schema[schema].resource >>)

\* Result.Valid is what JSON Schema says, whichever way the walk was cut
\* short: by WithStopOnFirstError, by WithMaxErrors dropping errors, by anyOf
\* and oneOf stopping early, by scopes that are not recorded when no
\* unevaluated* keyword is thought to read them; and a budget either cancels
\* the validation or changes nothing.
VerdictCorrect ==
    (Finished /\ ~ctx.overBudget) => ((ctx.errors.n = 0) <=> Meaning(schema, instance))

\* The annotations of a valid instance are those of subschemas that hold where
\* they were applied: none comes from a branch that failed.
AnnotationsHold ==
    (Finished /\ ~ctx.overBudget /\ ctx.errors.n = 0) =>
        \A a \in ctx.annos : Meaning(a.sub, a.at)
=============================================================================
