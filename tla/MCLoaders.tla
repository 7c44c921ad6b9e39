------------------------------- MODULE MCLoaders -------------------------------
(* Small instances of Loaders for TLC.                                      *)
EXTENDS Loaders, TLC

CONSTANTS file, other, pipe, secret

\* Two directories Root may lead to, and one with a file it must not serve.
MCRoots == {"home", "moved"}
MCName == {"a", "b"}
MCKind == file :> "regular" @@ other :> "regular" @@ pipe :> "pipe" @@ secret :> "regular"
MCContent == {None, file, other, pipe, Link("outside", "a"), Link("home", "b"), Link("moved", "a")}

\* The root's "a" and "b" hold anything; the other directory's "a" a file.
MCTrees ==
    {"home" :> ("a" :> e @@ "b" :> f) @@ "moved" :> ("a" :> other @@ "b" :> None)
        @@ "outside" :> ("a" :> secret @@ "b" :> None) : e \in MCContent, f \in {None, file}}

URIRecord(parses, scheme, what, hash) ==
    [parses |-> parses, scheme |-> scheme, what |-> what, hash |-> hash]

Files == {URIRecord(p, "file", w, FALSE) : p \in BOOLEAN, w \in {"a", "..", "..a"}}
Metas == {URIRecord(TRUE, s, w, h) : s \in {"http", "https"}, h \in BOOLEAN,
             w \in {"draft-04", "2020-12", "vocabulary", "oas-dialect", "doc"}}
Embeds == {URIRecord(TRUE, "embed", w, FALSE) : w \in {"doc", "missing"}}
MCRequest == Files \cup Metas \cup Embeds

MCChains == {<<>>, <<"default">>, <<"disabled", "map">>, <<"map", "embed", "file">>, <<"file", "default", "map">>}
=============================================================================
