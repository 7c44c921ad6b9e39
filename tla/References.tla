----------------------------- MODULE References -----------------------------
(***************************************************************************)
(* What JSON Schema means by the URIs of schemas and by references, and what *)
(* a compilation owes the validations that follow it.  Written from the      *)
(* documents alone, without a resource map, as a measure for Builder.        *)
(***************************************************************************)
EXTENDS Builder

Compiled == outcome = "compiled"

-----------------------------------------------------------------------------
(* The canonical URIs                                                        *)

Retrieval(w, doc) ==
    IF doc = w.doc THEN w.base
    ELSE IF \E i \in DOMAIN w.seeds : w.seeds[i].doc = doc
    THEN (CHOOSE s \in ToSet(w.seeds) : s.doc = doc).uri
    ELSE CHOOSE u \in DOMAIN w.remote : w.remote[u] = doc

Given(w) == {w.doc} \cup {s.doc : s \in ToSet(w.seeds)}
Sources(w) == Given(w) \cup Range(w.remote)

\* For every schema of the documents: its dialect, the nearest schema around
\* it, itself included, that is a resource of its own, the URI in effect, and
\* what each of its references denotes: in a resource with the reference's URI,
\* or a document retrieved from it, the schemas its fragment names; and which
\* of them are found without following another reference first.
Meaning(w) ==
    LET nodes == {n \in DOMAIN w.schema : w.schema[n].doc \in Sources(w)}
        s(n) == w.schema[n]
        top(n) == s(n).parent = None
        draft[n \in nodes] == Drafted(s(n), IF top(n) THEN "modern" ELSE draft[s(n).parent])
        isHome == [n \in nodes |-> top(n) \/ Opens(s(n), draft[n])]
        home[n \in nodes] == IF isHome[n] THEN n ELSE home[s(n).parent]
        base[n \in nodes] ==
            LET around == IF top(n) THEN Retrieval(w, s(n).doc) ELSE base[s(n).parent]
            IN IF Opens(s(n), draft[n]) THEN Named(s(n), around) ELSE around
        Called(m, name) == name \in {s(m).anchor, s(m).dyn} \/ (name = s(m).plain /\ draft[m] = "legacy")
        Denoted(n, ref) ==
            LET uri == Resolved(base[n], ref.uri)
                IsAt(h) == (isHome[h] /\ base[h] = uri) \/ (top(h) /\ Retrieval(w, s(h).doc) = uri)
                homes == {h \in nodes : IsAt(h)}
            IN IF ref.frag = << >> THEN homes
               ELSE IF ref.frag[1] = "#"
               THEN {m \in nodes : \E h \in homes :
                        s(m).doc = s(h).doc /\ s(m).path = s(h).path \o Tail(ref.frag)}
               ELSE {m \in nodes : home[m] \in homes /\ Called(m, ref.frag[1])}
        AtHand(n, ref, m) ==
            LET uri == Resolved(base[n], ref.uri)
            IN \/ s(m).doc \in Given(w) \cup {s(n).doc}
               \/ uri \in DOMAIN w.remote /\ w.remote[uri] = s(m).doc
    IN [nodes |-> nodes, base |-> base,
        denoted |-> [n \in nodes |-> [i \in DOMAIN s(n).refs |-> Denoted(n, s(n).refs[i])]],
        atHand |-> [n \in nodes |-> [i \in DOMAIN s(n).refs |->
                      {m \in Denoted(n, s(n).refs[i]) : AtHand(n, s(n).refs[i], m)}]]]
Meanings == [p \in Input |-> Meaning(World[p])]

Nodes == Meanings[input].nodes
Base == Meanings[input].base
Denoted == Meanings[input].denoted
AtHand == Meanings[input].atHand

-----------------------------------------------------------------------------
(* What a validation evaluates for a reference, given its dynamic scope: the  *)
(* URIs entered, outermost first.                                             *)

Outermost(scope, uris) ==
    LET found == Those(scope, uris) IN IF found = << >> THEN None ELSE rm.byURI[found[1]]

Selected(e, scope) ==
    LET uris == DOMAIN rm.byURI
        byName == Outermost(scope, {u \in uris : e.name \in DOMAIN rm.reg[rm.byURI[u]].dynamic})
        outermost == Outermost(scope, {u \in uris : rm.reg[rm.byURI[u]].recursive})
    IN IF e.kw = "$dynamicRef" /\ byName # None THEN rm.reg[byName].dynamic[e.name]
       ELSE IF e.kw = "$recursiveRef" /\ e.uri # << >> /\ e.uri \in DOMAIN rm.byURI
               /\ rm.reg[rm.byURI[e.uri]].recursive /\ outermost # None
       THEN outermost.root
       ELSE e.target

\* The evaluators of the subschema at k.
EvalsAt(k) == {id \in DOMAIN eval : id[1] = k /\ id[2] \in DOMAIN S(cache[k].node).refs}

-----------------------------------------------------------------------------
(* Properties *)

\* Three places work out the URI in effect at a schema: the walk, the binding
\* and the build, where a subschema may be entered from its parent or as the
\* target of a reference.  They end with the canonical one.
BasesAgree ==
    outcome # "running" => \A k \in DOMAIN cache : cache[k].base = Base[cache[k].node]

\* A reference is resolved to the schema its URI denotes, wherever it is
\* written and whichever documents were known when it was met, and is
\* unresolved only when there is none to find or the loader failed.
TargetsDenoted ==
    Compiled => \A k \in DOMAIN cache : \A id \in EvalsAt(k) :
        IF eval[id].target = None
        THEN faults < MaxFaults \/ rm.collided \/ AtHand[cache[k].node][id[2]] = {}
        ELSE eval[id].target \in Denoted[cache[k].node][id[2]]

\* What a reference evaluates is the subschema built from its target.
BuiltIsTarget ==
    outcome # "running" => \A id \in DOMAIN eval : \A t \in eval[id].built :
        TargetKey(eval[id], t) \in DOMAIN cache /\ cache[TargetKey(eval[id], t)].node = t

\* When Compile returns and whatever it tried to build it could build, every
\* target a validation can select is built, whichever resource of the map comes
\* first in the dynamic scope: validation only reads.  (A target that could not be
\* built may have fetched a document all the same, whose resources come too late.)
ValidationReady ==
    (Compiled /\ \A id \in DOMAIN eval : eval[id].failed = {}) =>
        \A k \in DOMAIN cache : \A id \in EvalsAt(k) :
            \A scope \in {<< >>} \cup {<< u >> : u \in DOMAIN rm.byURI} :
                Selected(eval[id], scope) \in {None} \cup eval[id].built

\* A schema compiles only if its own references resolve, and fails only for a
\* reason: one that does not, a schema that is malformed, a collision.
Sound ==
    /\ (Compiled /\ world.policy # "last") =>
          \A id \in DOMAIN eval :
             (id[1][1] = "#" /\ eval[id].kw = "$ref" /\ id[1] \in DOMAIN cache) => eval[id].target # None
    /\ outcome = "error" =>
          \/ faults < MaxFaults \/ rm.collided
          \/ \E n \in Nodes : S(n).fault # None
          \/ \E n \in Nodes : S(n).doc = world.doc /\ {} \in Range(AtHand[n])

\* The documents in the order of the walks, l being those that were fetched: what
\* was registered, the schema being compiled, then what was fetched.
Met(w, l) ==
    LET n == Len(w.seeds) + 1
    IN [i \in 1 .. n + Len(l) |-> IF i < n THEN w.seeds[i].doc ELSE IF i = n THEN w.doc
                                  ELSE w.remote[l[i - n]]]

\* Whether a walk comes to the first before it comes to the second: documents, and
\* schemas.
DocEarlier(w, l, d, e) ==
    \E j \in DOMAIN Met(w, l) : \E i \in 1 .. j - 1 : Met(w, l)[i] = d /\ Met(w, l)[j] = e
Earlier(w, l, a, b) ==
    LET nodes == w.docs[w.schema[b].doc]
    IN \/ DocEarlier(w, l, w.schema[a].doc, w.schema[b].doc)
       \/ \E j \in DOMAIN nodes : \E i \in 1 .. j - 1 : nodes[i] = a /\ nodes[j] = b

\* The resource of map m that ought to answer a URI: under RefCollisionLastWins the
\* last to claim it; under the other policies the first, but for the URI of the
\* schema being compiled, which takes its own.
Claims(m, u) == {r \in DOMAIN m.reg : r.uri = u}
LastClaim(w, m, l, u) == {r \in Claims(m, u) : \A o \in Claims(m, u) \ {r} : Earlier(w, l, o.root, r.root)}
FirstClaim(w, m, l, u) == {r \in Claims(m, u) : \A o \in Claims(m, u) \ {r} : Earlier(w, l, r.root, o.root)}
Entitled(w, m, l, u) ==
    IF w.policy = "last" THEN LastClaim(w, m, l, u)
    ELSE IF u = m.rootURI THEN {[uri |-> u, root |-> w.docs[w.doc][1]]}
    ELSE FirstClaim(w, m, l, u)

\* Whatever was registered, nested or fetched, and in whichever order the
\* documents were walked, the policy alone decides which of two different
\* schemas a URI stands for.
PolicyDecides ==
    Compiled => \A u \in DOMAIN rm.byURI :
        \E r \in Entitled(world, rm, loads, u) : S(rm.byURI[u].root).content = S(r.root).content

\* URIs mean what JSON Schema says: the one in effect at a schema wherever it is
\* worked out, what references find by them, and what is built for those.
RefsMeanTheirURI == BasesAgree /\ TargetsDenoted /\ BuiltIsTarget

\* Compile comes to an end, whatever cycles the references make.
CompileReturns == <>(outcome # "running")
=============================================================================
