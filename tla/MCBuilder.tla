----------------------------- MODULE MCBuilder -----------------------------
(***************************************************************************)
(* Compilations for TLC: a schema of a dozen nodes with two references taken *)
(* from a list, the documents it is registered with, and those a loader can  *)
(* fetch.                                                                    *)
(***************************************************************************)
EXTENDS References

MCAlphabet ==
    << "#", "#d", "#k", "#x", "#z", "$defs", "definitions", "dyn:", "e", "f", "far", "fk", "fp", "fq", "h",
       "ignored", "m", "main", "mp", "mq", "mu", "mv", "mx", "my", "mz", "none", "not", "o", "op", "other", "p",
       "properties", "q", "rec:", "s", "seed", "sub", "sx", "unknown", "x", "y", "z" >>

Abs(path) == [abs |-> TRUE, path |-> path]
Rel(path) == [abs |-> FALSE, path |-> path]
Here == Rel(<< >>)
Ref(kw, uri, frag) == [kw |-> kw, uri |-> uri, frag |-> frag]

At0(doc) ==
    [doc |-> doc, parent |-> None, kind |-> "root", path |-> << >>, walked |-> TRUE, id |-> None, plain |-> None,
     anchor |-> None, dyn |-> None, recursive |-> FALSE, draft |-> None, refs |-> << >>, fault |-> None,
     content |-> << doc, << >> >>]
Below(parent, n, kind, tokens) ==
    [At0(n.doc) EXCEPT !.parent = parent, !.kind = kind, !.path = n.path \o tokens,
                       !.walked = n.walked /\ kind # "unknown", !.content = << n.doc, n.path \o tokens >>]

H(name) == << "h", name >>
X == << "h", "sub", "x" >>
Y == << "h", "sub", "y" >>

-----------------------------------------------------------------------------
\* The schema: a nested resource in a nested resource, both with an anchor #k,
\* references in the outermost and in the outer one, a part under an unknown
\* keyword that only a JSON Pointer reaches.

Main(v) ==
    LET m == [At0("main") EXCEPT !.id = v.rootID, !.draft = v.draft, !.dyn = v.rootDyn, !.recursive = v.recursive]
        mx == [Below("m", m, "$defs", << "$defs", "x" >>) EXCEPT !.id = Rel(<< "sub", "x" >>), !.anchor = "#k"]
        my == [Below("mx", mx, "$defs", << "$defs", "y" >>) EXCEPT
                 !.id = Rel(<< "y" >>), !.anchor = "#k", !.dyn = "#d", !.recursive = TRUE, !.refs = v.inY]
        mq == [Below("mx", mx, "applied", << "properties", "q" >>) EXCEPT !.refs = v.second]
        mz == [Below("m", m, "definitions", << "definitions", "z" >>) EXCEPT
                 !.plain = v.plain, !.anchor = "#z", !.fault = v.fault]
        mp == [Below("m", m, "applied", << "properties", "p" >>) EXCEPT
                 !.refs = v.first, !.id = v.siblingID]
        mu == Below("m", m, "unknown", << "unknown" >>)
        mv == [Below("mu", mu, "applied", << "not" >>) EXCEPT !.refs = << Ref("$ref", Here, << "#z" >>) >>]
    IN [m |-> m, mx |-> mx, my |-> my, mq |-> mq, mz |-> mz, mp |-> mp, mu |-> mu, mv |-> mv]
MainOrder == << "m", "mx", "my", "mq", "mz", "mp", "mu", "mv" >>

\* Documents to fetch: far refers to other, and to whatever is outermost.
Far ==
    LET f == [At0("far") EXCEPT !.dyn = "#d"]
        fk == [Below("f", f, "$defs", << "$defs", "x" >>) EXCEPT !.anchor = "#k"]
        fp == [Below("f", f, "applied", << "properties", "p" >>) EXCEPT
                 !.refs = << Ref("$dynamicRef", Here, << "#d" >>) >>]
        fq == [Below("f", f, "applied", << "properties", "q" >>) EXCEPT
                 !.refs = << Ref("$ref", Rel(<< "other" >>), << >>) >>]
    IN [f |-> f, fk |-> fk, fp |-> fp, fq |-> fq]
Other(v) ==
    LET o == [At0("other") EXCEPT !.id = Abs(H("other")), !.dyn = "#d", !.recursive = TRUE, !.fault = v.language]
        op == [Below("o", o, "applied", << "properties", "p" >>) EXCEPT
                 !.refs = << Ref("$recursiveRef", Here, << >>) >>, !.fault = v.far]
        e == [Below("o", o, "$defs", << "$defs", "x" >>) EXCEPT !.id = v.clash]
    IN [o |-> o, e |-> e, op |-> op]
Seeded(v) ==
    LET s == [At0("seed") EXCEPT !.dyn = "#d"]
        sx == [Below("s", s, "$defs", << "$defs", "x" >>) EXCEPT !.anchor = "#z", !.id = v.seedClash]
    IN [s |-> s, sx |-> sx]

Plainly ==
    [rootID |-> Abs(H("main")), draft |-> None, rootDyn |-> None, recursive |-> FALSE, plain |-> None,
     fault |-> None, far |-> None, language |-> None, siblingID |-> None, clash |-> None, seedClash |-> None,
     first |-> << >>, second |-> << >>, inY |-> << >>, base |-> << >>, seeds |-> << >>,
     meta |-> Ref("$schema", Here, << >>), policy |-> "error"]

Built(v) ==
    [schema |-> Main(v) @@ Far @@ Other(v) @@ Seeded(v),
     docs |-> [main |-> MainOrder, far |-> << "f", "fk", "fp", "fq" >>, other |-> << "o", "e", "op" >>,
               seed |-> << "s", "sx" >>],
     doc |-> "main", base |-> v.base, seeds |-> v.seeds, meta |-> v.meta, policy |-> v.policy,
     remote |-> [u \in {H("far"), H("other")} |-> u[2]]]

-----------------------------------------------------------------------------
\* Every pair of references, one in the outermost and one in a nested resource.

Pointer(tokens) == << "#" >> \o tokens
RefList ==
    << Ref("$ref", Here, << >>),
       Ref("$ref", Here, << "#z" >>),
       Ref("$ref", Here, << "#k" >>),
       Ref("$ref", Here, Pointer(<< "properties", "q" >>)),
       Ref("$ref", Rel(<< "sub", "x" >>), << "#k" >>),
       Ref("$ref", Rel(<< "y" >>), << "#k" >>),
       Ref("$ref", Abs(Y), << >>),
       Ref("$ref", Abs(H("main")), Pointer(<< "unknown" >>)),
       Ref("$ref", Abs(H("far")), << >>),
       Ref("$ref", Abs(H("far")), << "#k" >>),
       Ref("$ref", Abs(H("seed")), Pointer(<< "$defs", "x" >>)),
       Ref("$ref", Abs(H("none")), << >>),
       Ref("$dynamicRef", Here, << "#d" >>),
       Ref("$dynamicRef", Abs(H("other")), << "#d" >>),
       Ref("$dynamicRef", Abs(H("none")), << "#d" >>),
       Ref("$recursiveRef", Here, << >>) >>

Seeds == << [uri |-> H("seed"), doc |-> "seed"] >>

PairOf(i, j) ==
    [Plainly EXCEPT !.first = << RefList[i] >>, !.second = << RefList[j] >>, !.seeds = Seeds,
                    !.rootDyn = "#d", !.recursive = (i = j)]
Pairs == [p \in {"pair"} \X (DOMAIN RefList) \X (DOMAIN RefList) |-> Built(PairOf(p[2], p[3]))]

\* The dialects, the URI rules and the failures, with each policy.
Variants == [
    legacy |-> [Plainly EXCEPT !.draft = "legacy", !.plain = "#d",
                  !.first = << Ref("$ref", Here, << "#d" >>) >>, !.siblingID = Abs(H("ignored")),
                  !.second = << Ref("$ref", Rel(<< "y" >>), << >>) >>],
    noID |-> [Plainly EXCEPT !.rootID = None, !.first = << Ref("$ref", Here, << "#z" >>) >>],
    noIDAtBase |-> [Plainly EXCEPT !.rootID = None, !.base = H("main"),
                      !.first = << Ref("$ref", Rel(<< "main" >>), Pointer(<< "unknown" >>)) >>],
    siblingID |-> [Plainly EXCEPT !.siblingID = Abs(H("p")),
                     !.first = << Ref("$ref", Rel(<< "far" >>), << >>) >>],
    meta |-> [Plainly EXCEPT !.meta = Ref("$schema", Abs(H("far")), << >>),
                !.first = << Ref("$dynamicRef", Here, << "#d" >>) >>,
                !.rootDyn = "#d"],
    unknown |-> [Plainly EXCEPT !.meta = Ref("$schema", Abs(H("other")), << >>), !.language = "vocabulary"],
    broken |-> [Plainly EXCEPT !.fault = "builder", !.first = << Ref("$ref", Here, << "#z" >>) >>,
                  !.second = << Ref("$ref", Here, << >>) >>],
    misshapen |-> [Plainly EXCEPT !.fault = "shape"],
    brokenFar |-> [Plainly EXCEPT !.far = "builder",
                     !.first = << Ref("$dynamicRef", Abs(H("far")), << "#d" >>) >>],
    loop |-> [Plainly EXCEPT !.inY = << Ref("$dynamicRef", Here, << "#d" >>), Ref("$ref", Rel(<< "x" >>), << >>) >>,
                !.first = << Ref("$recursiveRef", Abs(Y), << >>), Ref("$ref", Abs(X), << >>) >>],
    missing |-> [Plainly EXCEPT !.first = << Ref("$ref", Here, << "#x" >>) >>],
    clash |-> [Plainly EXCEPT !.clash = Abs(Y),
                 !.first = << Ref("$ref", Abs(Y), << >>), Ref("$dynamicRef", Abs(H("other")), << "#d" >>) >>,
                 !.second = << Ref("$dynamicRef", Abs(H("other")), << "#d" >>) >>],
    seedClash |-> [Plainly EXCEPT !.seedClash = Abs(X), !.seeds = Seeds,
                     !.first = << Ref("$ref", Abs(X), << >>), Ref("$ref", Abs(H("seed")), << >>) >>]]
Policies == {"error", "first", "last"}
Varied ==
    [p \in {"variant"} \X (DOMAIN Variants) \X Policies |-> Built([Variants[p[2]] EXCEPT !.policy = p[3]])]

-----------------------------------------------------------------------------
MCWorld == Pairs @@ Varied
MCInputs == DOMAIN MCWorld
=============================================================================
