----------------------------- MODULE MCRecursion -----------------------------
(***************************************************************************)
(* Recursive schemas, dynamic references and small limits for TLC: schemas  *)
(* that return to themselves at one location, that double the work at every *)
(* turn, and that follow the instance down.                                 *)
(***************************************************************************)
EXTENDS MCSchemas

MCKeyOrder == << "a", "b" >>
MCNameValue == [a |-> "x", b |-> "y"]

\* A tree three levels deep, and an array in an array; every value has a
\* location of its own.
MCValue == {"x", "y", "z", "w", "leaf", "fork", "root", "row", "table"}
MCInstance ==
    [v \in MCValue |->
        CASE v = "leaf" -> Object([a |-> "x"])
          [] v = "fork" -> Object([a |-> "leaf", b |-> "y"])
          [] v = "root" -> Object([a |-> "fork"])
          [] v = "row" -> Array(<< "z", "w" >>)
          [] v = "table" -> Array(<< "row" >>)
          [] OTHER -> Scalar]
MCHeight ==
    [v \in MCValue |-> CASE v \in {"leaf", "row"} -> 1
                         [] v \in {"fork", "table"} -> 2
                         [] v = "root" -> 3
                         [] OTHER -> 0]
Documents == {"root", "fork", "table"}

Ref(s) == Only("$ref", [target |-> s])
Within(resource, kws) == [Plain(kws) EXCEPT !.resource = resource]

SchemaOf(name) ==
    CASE name = "T" -> Boolean(TRUE)
      [] name = "F" -> Boolean(FALSE)
      [] name = "X" -> Plain([type |-> {"y", "w"}])
      [] name = "broken" -> Plain([anyOf |-> << "unresolved", "X" >>])
      [] name = "unresolved" -> Plain(Ref(None))
      \* Loops at one location
      [] name = "self" -> Plain(Ref("self"))
      [] name = "denies" -> Plain([not |-> "deniesRef", title |-> None])
      [] name = "deniesRef" -> Plain(Ref("denies"))
      [] name = "double" -> Plain([allOf |-> << "doubleRef", "doubleRef" >>])
      [] name = "doubleRef" -> Plain(Ref("double"))
      [] name = "either" -> Plain([anyOf |-> << "eitherRef", "F", "X" >>])
      [] name = "eitherRef" -> Plain(Ref("either"))
      \* Recursion down the instance
      [] name = "tree" ->
           Plain([properties |-> [a |-> "treeRef", b |-> "F"], oneOf |-> << "X", "T", "F" >>,
                  contains |-> [sub |-> "treeRef", min |-> 1, max |-> 1]])
      [] name = "treeRef" -> Plain(Ref("tree"))
      \* One keyword finds the object too long in a branch, another outside it
      [] name = "keys" -> Plain(And(Ref("notKeys"), [properties |-> [a |-> "T"]]))
      [] name = "notKeys" -> Plain([not |-> "someKeys"])
      [] name = "someKeys" -> Plain([properties |-> [b |-> "X"]])
      [] name = "lacking" -> Plain([required |-> << "b", "c" >>, dependentRequired |-> [a |-> << "b", "c" >>]])
      [] name = "empty" -> Plain([additionalProperties |-> "F"])
      \* A closed tree extends an open one by $dynamicRef
      [] name = "open" -> Resource("open", [properties |-> [a |-> "openRef"]])
      [] name = "openRef" -> Within("open", Only("$dynamicRef", [target |-> "open", name |-> "node"]))
      [] name = "closed" -> Resource("closed", And(Ref("open"), [unevaluatedProperties |-> "F"]))
      \* ... and by $recursiveRef
      [] name = "older" -> Resource("older", [properties |-> [a |-> "olderRef"]])
      [] name = "olderRef" -> Within("older", Only("$recursiveRef", [target |-> "older", resource |-> "older"]))
      [] name = "newer" -> Resource("newer", And(Ref("older"), [unevaluatedProperties |-> "F"]))
      \* Everything at once
      [] name = "mixed" ->
           Plain([allOf |-> << "tree", "closed" >>, items |-> ItemsSchema("double"),
                  dependentSchemas |-> [a |-> "deniesRef"]])

MCSub == {"T", "F", "X", "broken", "unresolved", "self", "denies", "deniesRef", "double",
          "doubleRef", "either", "eitherRef", "tree", "treeRef", "keys", "notKeys", "someKeys",
          "empty", "lacking", "open", "openRef", "closed", "older", "olderRef", "newer", "mixed"}
MCSchema == [name \in MCSub |-> SchemaOf(name)]
MCDynamic == [open |-> [node |-> "open"], closed |-> [node |-> "closed"]]
MCRecursive == [older |-> "older", newer |-> "newer"]

Loops == {"self", "denies", "double", "either", "mixed"}
Resolved == {"tree", "keys", "empty", "lacking", "closed", "newer", "open", "older"}
Roots == Loops \cup {"broken", "tree", "keys", "empty", "lacking", "closed", "newer"}

Limits ==
    [stop : BOOLEAN, collect : {TRUE}, maxErrors : {0, 1}, limit : {-1, 9},
     maxDepth : {2, 6}, maxRefDepth : {1, 3}, maxKeyCount : {0, 1}]

\* No limit gets in the way.
Generous ==
    [stop : BOOLEAN, collect : BOOLEAN, maxErrors : {0}, limit : {-1},
     maxDepth : {30}, maxRefDepth : {30}, maxKeyCount : {0}]

MCValidations == (Roots \X Documents \X Limits) \cup (Resolved \X Documents \X Generous)
LimitedValidations == Roots \X Documents \X Limits

Reference == INSTANCE Semantics

\* References resolved by the dynamic scope as it stands when they are reached
\* give the verdict JSON Schema gives, and no scope is left behind by a branch
\* or a child.
VerdictCorrect ==
    (Finished /\ opts \in Generous) =>
        ((ctx.errors.n = 0) <=> Reference!Valid(schema, instance, << Schema[schema].resource >>))
=============================================================================
