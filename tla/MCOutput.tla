------------------------------ MODULE MCOutput ------------------------------
(***************************************************************************)
(* Errors and annotations of a schema like                                  *)
(* {title, type, allOf: [{maxItems}, {items: {title, type}}],               *)
(*  items: {title, type, anyOf: [{title, oneOf: [{type}]}, {minimum}]}}     *)
(* on an array of two items.                                                *)
(***************************************************************************)
EXTENDS Output

Item(i) == << i >>
InOneOf(i) == Error(<< "items", "anyOf", 0, "oneOf" >>, Item(i),
                    << Error(<< "items", "anyOf", 0, "oneOf", 0, "type" >>, Item(i), <<>>) >>)
InAnyOf(i) == Error(<< "items", "anyOf" >>, Item(i),
                    << InOneOf(i), Error(<< "items", "anyOf", 1, "minimum" >>, Item(i), <<>>) >>)

MCErrors ==
    {Error(<< "type" >>, <<>>, <<>>), Error(<< "allOf", 0, "maxItems" >>, <<>>, <<>>),
     Error(<< "allOf", 1, "items", "type" >>, Item(0), <<>>), Error(<< "items", "type" >>, Item(1), <<>>),
     InAnyOf(0), InAnyOf(1)}
MCAnnotations ==
    {Annotation(<< "title" >>, <<>>), Annotation(<< "items", "title" >>, Item(0)),
     Annotation(<< "items", "anyOf", 0, "title" >>, Item(1)),
     Annotation(<< "allOf", 1, "items", "title" >>, Item(1))}
=============================================================================
