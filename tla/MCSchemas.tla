------------------------------ MODULE MCSchemas ------------------------------
(***************************************************************************)
(* How the model-checked instances of Evaluator write down schemas and      *)
(* instances.                                                               *)
(***************************************************************************)
EXTENDS Evaluator

Scalar == [kind |-> "scalar"]
Object(members) == [kind |-> "object", members |-> members]
Array(items) == [kind |-> "array", items |-> items]

\* Keyword k with value v, and the keywords of two objects with no common one.
Only(k, v) == [n \in {k} |-> v]
And(f, g) == [k \in DOMAIN f \cup DOMAIN g |-> IF k \in DOMAIN f THEN f[k] ELSE g[k]]

Resource(name, kws) == [bool |-> None, kws |-> kws, resource |-> name, crosses |-> TRUE]
Plain(kws) == [Resource("main", kws) EXCEPT !.crosses = FALSE]
Boolean(b) == [Plain(<<>>) EXCEPT !.bool = b]
ItemsSchema(sub) == [isPrefix |-> FALSE, sub |-> sub]
ItemsArray(subs) == [isPrefix |-> TRUE, subs |-> subs]
=============================================================================
