------------------------------- MODULE Builder -------------------------------
(***************************************************************************)
(* One compilation: the resource map, the binding of the schema's keywords  *)
(* and the graph of subschemas a validation will walk (src/ref.go,          *)
(* src/compile.go, src/eval.go, src/eval_ref.go).                           *)
(*                                                                          *)
(* compile() walks the registered documents and the schema into the         *)
(* resource map, binds the schema's keywords, which resolves its references *)
(* and may fetch documents, then builds subschemas and the targets of their *)
(* references until nothing new turns up.  The Go call stack is todo, the   *)
(* calls still to be made, the next one first.                              *)
(*                                                                          *)
(* A URI is the sequence of its segments, << >> the empty one; a fragment   *)
(* is << >>, an anchor's name << "#name" >>, or << "#" >> and the tokens of *)
(* a JSON Pointer.  Schema objects are nodes; a document is the sequence of *)
(* its nodes in the order the walk meets them.  Boolean schemas, which have *)
(* nothing to resolve, are left out.                                        *)
(***************************************************************************)
EXTENDS Selecting, FiniteSets, SequencesExt

CONSTANTS
    None,
    Input,      \* the compilations to check
    World,      \* per input: the documents, where they come from, the policy
    Alphabet,   \* the tokens of locations, in alphabetical order
    MaxFaults   \* how many fetches may fail that need not

VARIABLES
    input,
    world,      \* World[input]
    todo,       \* the calls to be made
    rm,         \* the resourceMap
    cache,      \* evalBuilder.cache: location -> subschema
    eval,       \* <<location, i>> -> evaluator of the i-th reference there
    seen,       \* buildAll's done
    work,       \* refWork: the dynamic and recursive references seen
    loads,      \* the documents fetched, in order
    faults,     \* fetches that may still fail
    outcome     \* "running", "compiled" or "error"

given == << input, world >>
vars == << given, todo, rm, cache, eval, seen, work, loads, faults, outcome >>

-----------------------------------------------------------------------------
(* Documents *)

Token == ToSet(Alphabet)
Path == Seq(Token)
Draft == {"legacy", "modern"}
Reference == [abs : BOOLEAN, path : Path]
RefTo(keywords) == [kw : keywords, uri : Reference, frag : Path]
KeywordRef == RefTo({"$ref", "$dynamicRef", "$recursiveRef"})

SchemaOK(w, s) ==
    /\ s.doc \in DOMAIN w.docs /\ s.path \in Path /\ s.walked \in BOOLEAN /\ s.recursive \in BOOLEAN
    /\ s.parent # None =>
          /\ s.parent \in DOMAIN w.schema /\ Len(w.schema[s.parent].path) < Len(s.path)
          /\ s.walked => w.schema[s.parent].walked
    /\ s.id \in Reference \cup {None} /\ s.draft \in Draft \cup {None}
    /\ {s.plain, s.anchor, s.dyn} \subseteq Token \cup {None}
    /\ s.refs \in Seq(KeywordRef)

\* A document is a tree of nodes of its own, listed from the root down.
DocumentOK(w, d) ==
    /\ w.docs[d] \in Seq(DOMAIN w.schema) /\ w.docs[d] # << >>
    /\ \A i \in DOMAIN w.docs[d] :
          LET s == w.schema[w.docs[d][i]]
          IN /\ s.doc = d
             /\ s.parent # None => \E j \in 1 .. i - 1 : w.docs[d][j] = s.parent
             /\ \A j \in 1 .. i - 1 : w.docs[d][j] # w.docs[d][i]

\* Nodes and the names the builder makes up are tokens of locations too.  Each
\* registered or fetched document is parsed into nodes of its own.
WorldOK(w) ==
    /\ DOMAIN w.schema \subseteq Token /\ None \notin DOMAIN w.schema
    /\ \A n \in DOMAIN w.schema : SchemaOK(w, w.schema[n])
    /\ \A d \in DOMAIN w.docs : DocumentOK(w, d)
    /\ w.doc \in DOMAIN w.docs /\ w.base \in Path /\ w.meta \in RefTo({"$schema"})
    /\ w.seeds \in Seq([uri : Path, doc : DOMAIN w.docs \ {w.doc}])
    /\ \A i, j \in DOMAIN w.seeds : w.seeds[i].doc = w.seeds[j].doc => i = j
    /\ DOMAIN w.remote \subseteq Path
    /\ \A u \in DOMAIN w.remote :
          /\ w.remote[u] \in DOMAIN w.docs \ {w.doc}
          /\ \A i \in DOMAIN w.seeds : w.seeds[i].doc # w.remote[u]
          /\ \A v \in DOMAIN w.remote : w.remote[u] = w.remote[v] => u = v

ASSUME WorldAssumption == \A p \in Input : WorldOK(World[p])
ASSUME AlphabetAssumption ==
    /\ Alphabet \in Seq(Token) /\ {"#", "dyn:", "rec:"} \subseteq Token
    /\ MaxFaults \in Nat

S(n) == world.schema[n]
Root == world.docs[world.doc][1]
Empty == [x \in {} |-> None]
\* A map with one entry set, the entry of a name that may be missing, and a map
\* with the entries of another it has none for.
Put(f, k, v) == [x \in DOMAIN f \cup {k} |-> IF x = k THEN v ELSE f[x]]
Entry(name, n) == [x \in {name} \ {None} |-> n]
Over(f, g) == [x \in DOMAIN f \cup DOMAIN g |-> IF x \in DOMAIN f THEN f[x] ELSE g[x]]
Has(s, kw) == \E r \in ToSet(s.refs) : r.kw = kw
Kids(n, kinds) ==
    Those(world.docs[S(n).doc], {m \in DOMAIN world.schema : S(m).parent = n /\ S(m).kind \in kinds})
Tokens(n) == SubSeq(S(n).path, Len(S(S(n).parent).path) + 1, Len(S(n).path))

\* A relative reference replaces what follows the last slash.
Resolved(base, ref) ==
    IF ref.path = << >> THEN base
    ELSE IF ref.abs \/ base = << >> THEN ref.path
    ELSE Front(base) \o ref.path

\* The URI a schema's $id names, inside base; "#name" names base itself.
Named(s, base) == IF s.id = None THEN base ELSE Resolved(base, s.id)
HasID(s) == s.id # None \/ s.plain # None
Drafted(s, inherited) == IF s.draft = None THEN inherited ELSE s.draft
\* Before 2019-09, $ref replaces its siblings, $id included.
RefOnly(s, draft) == draft = "legacy" /\ Has(s, "$ref")

-----------------------------------------------------------------------------
(* The resource map.  A resource is its URI and the node that opened it.     *)

EmptyMap == [byURI |-> Empty, order |-> << >>, rootURI |-> << >>, owner |-> Empty,
             reg |-> Empty, failed |-> FALSE, collided |-> FALSE]

NewResource(m, r, draft, external) ==
    [m EXCEPT !.reg = Put(@, r, [anchors |-> Empty, dynamic |-> Empty, recursive |-> FALSE,
                                 draft |-> draft, external |-> external])]

\* Mutant: a losing resource takes the URI all the same.
WrongAdd(m, r) ==
    LET holder == m.byURI[r.uri]
    IN IF r.uri \notin DOMAIN m.byURI
       THEN [m EXCEPT !.byURI = Put(@, r.uri, r), !.order = Append(@, r.uri)]
       ELSE IF S(holder.root).content = S(r.root).content THEN [m EXCEPT !.byURI[r.uri] = r]
       ELSE [m EXCEPT !.byURI[r.uri] = r, !.failed = (world.policy = "error"), !.collided = TRUE]

Add(m, r) ==
    LET holder == m.byURI[r.uri]
    IN IF r.uri \notin DOMAIN m.byURI
       THEN [m EXCEPT !.byURI = Put(@, r.uri, r), !.order = Append(@, r.uri)]
       ELSE IF S(holder.root).content = S(r.root).content THEN [m EXCEPT !.byURI[r.uri] = r]
       ELSE [m EXCEPT !.byURI[r.uri] = IF world.policy = "last" THEN r ELSE @,
                      !.failed = (world.policy = "error"), !.collided = TRUE]

\* openResourceIfNeeded: the map with the resource n opens, if it opens one.
Opens(s, draft) == HasID(s) /\ ~RefOnly(s, draft) /\ ~(draft = "legacy" /\ s.plain # None)
Opened(m, n, current, draft) ==
    LET r == [uri |-> Named(S(n), current.uri), root |-> n]
    IN IF ~Opens(S(n), draft) \/ (r.uri \in DOMAIN m.byURI /\ m.byURI[r.uri].root = n) THEN m
       ELSE Add(NewResource(m, r, draft, m.reg[current].external), r)

\* Mutant: the anchors of a nested resource go to the one around it.
WrongAnchored(m, n, current, target, draft) ==
    LET s == S(n)
        plain == Entry(IF draft = "legacy" THEN s.plain ELSE None, n)
        anchor == Entry(s.anchor, n)
        dynamic == Entry(s.dyn, n)
    IN [m EXCEPT !.owner = Over(@, [x \in {n} |-> target]),
                 !.reg[current].anchors = Over(Over(anchor, Over(plain, @)), dynamic),
                 !.reg[target].dynamic = Over(dynamic, @),
                 !.reg[target].recursive = @ \/ (target.root = n /\ s.recursive)]

\* The data of a resource with more anchors, the dynamic ones among them, of n.
Scoped(data, anchor, dynamic, recursive) ==
    [data EXCEPT !.anchors = Over(Over(anchor, data.anchors), dynamic),
                 !.dynamic = Over(dynamic, data.dynamic),
                 !.recursive = data.recursive \/ recursive]

\* recordLocation, which keeps the first, registerAnchors, and the "#name" $id
\* of the drafts before 2019-09.
Anchored(m, n, current, target, draft) ==
    LET s == S(n)
        plain == Entry(IF draft = "legacy" THEN s.plain ELSE None, n)
        data == m.reg[current]
        reg == [m.reg EXCEPT ![current] = [data EXCEPT !.anchors = Over(plain, data.anchors)]]
    IN [m EXCEPT !.owner = Over(m.owner, [x \in {n} |-> target]),
                 !.reg = [reg EXCEPT ![target] = Scoped(reg[target], Entry(s.anchor, n), Entry(s.dyn, n),
                                                        target.root = n /\ s.recursive)]]

Unless(m, Onward(_)) == IF m.failed THEN m ELSE Onward(m)

WalkNode(m, n, entry) ==
    LET current == IF S(n).parent = None THEN entry ELSE m.owner[S(n).parent]
        draft == Drafted(S(n), m.reg[current].draft)
        target == IF Opens(S(n), draft) THEN [uri |-> Named(S(n), current.uri), root |-> n] ELSE current
    IN Unless(Opened(m, n, current, draft), LAMBDA o : Anchored(o, n, current, target, draft))

Walk(m, doc, entry) ==
    LET nodes == world.docs[doc]
        after[i \in 0 .. Len(nodes)] ==
            IF i = 0 THEN m
            ELSE IF S(nodes[i]).walked
                 THEN Unless(after[i - 1], LAMBDA o : WalkNode(o, nodes[i], entry))
                 ELSE after[i - 1]
    IN after[Len(nodes)]

WalkDocument(m, doc, uri, draft) ==
    LET r == [uri |-> uri, root |-> world.docs[doc][1]]
    IN Unless(Add(NewResource(m, r, draft, TRUE), r), LAMBDA o : Walk(o, doc, r))

\* The schema being compiled replaces whatever holds its URI.
WalkResource(m, uri, draft) ==
    LET r == [uri |-> uri, root |-> Root]
        new == NewResource(m, r, draft, FALSE)
    IN Walk([new EXCEPT !.byURI = Put(@, uri, r), !.rootURI = uri,
                        !.order = IF uri \in DOMAIN m.byURI THEN @ ELSE Append(@, uri)],
            world.doc, r)

-----------------------------------------------------------------------------
(* References *)

\* jsonPointer and the anchors: the node a fragment denotes in a resource.
Fragment(m, r, frag) ==
    IF frag = << >> THEN r.root
    ELSE IF Head(frag) = "#" THEN
        LET path == S(r.root).path \o Tail(frag)
            at == Those(world.docs[S(r.root).doc], {n \in DOMAIN world.schema : S(n).path = path})
        IN IF at = << >> THEN None ELSE at[1]
    ELSE IF frag[1] \in DOMAIN m.reg[r].anchors THEN m.reg[r].anchors[frag[1]]
    ELSE None

\* Mutant: a failed walk leaves no trace.
WrongKept(m) == IF m.failed THEN rm ELSE m
\* The map after a walk, however it went.
Kept(m) == [m EXCEPT !.failed = FALSE]

\* What resolveRef returns, m being the map with the document it fetched.
Resolution(m, uri, ref, lazy, fetched, up) ==
    [rm |-> Kept(m),
     loads |-> IF fetched THEN Append(loads, uri) ELSE loads,
     faults |-> IF up THEN faults ELSE faults - 1,
     target |-> IF ~lazy /\ ~m.failed /\ uri \in DOMAIN m.byURI
                THEN Fragment(m, m.byURI[uri], ref.frag) ELSE None,
     uri |-> uri, key |-> uri \o ref.frag, lazy |-> lazy]

\* resolveRef and fetchExternalResource.  A fetch may fail that need not,
\* MaxFaults times; a document whose walk fails stays in the map as far as it
\* was walked.
Resolutions(base, ref, stack, draft) ==
    LET uri == Resolved(base, ref.uri)
        lazy == uri \o ref.frag \in stack
        absent == ~lazy /\ uri \notin DOMAIN rm.byURI /\ uri \in DOMAIN world.remote
    IN {Resolution(IF absent /\ up
                   THEN WalkDocument(rm, world.remote[uri], uri,
                                     Drafted(S(world.docs[world.remote[uri]][1]), draft))
                   ELSE rm,
                   uri, ref, lazy, absent /\ up, up) :
          up \in {TRUE} \cup (IF absent /\ faults > 0 THEN {FALSE} ELSE {})}

Learn(got) == rm' = got.rm /\ loads' = got.loads /\ faults' = got.faults

-----------------------------------------------------------------------------
(* The calls *)

Seed(s) == [call |-> "seed", uri |-> s.uri, doc |-> s.doc]
Bind(n, base, stack, draft) == [call |-> "bind", n |-> n, base |-> base, stack |-> stack, draft |-> draft]
BindRef(ref, base, stack, draft) ==
    [call |-> "bindref", ref |-> ref, base |-> base, stack |-> stack, draft |-> draft]
Enter(n, key, base, crosses) ==
    [call |-> "enter", n |-> n, key |-> key, base |-> base, crosses |-> crosses]
Settle(id, target) == [call |-> "settle", id |-> id, target |-> target]
Just(call) == [call |-> call]

\* compile: the URI of the schema, from its $id and the base URI.
RootURI == Named(S(Root), world.base)
RootDraft == Drafted(S(Root), "modern")

Init ==
    /\ input \in Input /\ world = World[input]
    /\ todo = [i \in DOMAIN world.seeds |-> Seed(world.seeds[i])]
                \o << Just("walk"), Bind(Root, RootURI, {}, RootDraft), Just("vocabularies"),
                      Enter(Root, << "#" >>, RootURI, TRUE), Just("round") >>
    /\ rm = EmptyMap
    /\ cache = Empty /\ eval = Empty
    /\ seen = {} /\ work = << >> /\ loads = << >>
    /\ faults = MaxFaults
    /\ outcome = "running"

At(call) == todo # << >> /\ Head(todo).call = call
Call == Head(todo)
Then(calls) == todo' = calls \o Tail(todo) /\ UNCHANGED outcome

\* Mutant: the parent of a subschema that cannot be built is built without it.
WrongCatches == {i \in 2 .. Len(todo) : todo[i].call \in {"promote", "settle"}}
\* An error returns to the nearest caller that records it, or from Compile.
Catches == {i \in DOMAIN todo : todo[i].call = "settle"}
Throw ==
    IF Catches = {} THEN todo' = << >> /\ outcome' = "error"
    ELSE /\ todo' = SubSeq(todo, CHOOSE i \in Catches : \A j \in Catches : i <= j, Len(todo))
         /\ UNCHANGED outcome

Walks(m) ==
    /\ rm' = Kept(m)
    /\ IF m.failed THEN Throw ELSE Then(<< >>)
    /\ UNCHANGED << given, cache, eval, seen, work, loads, faults >>

\* seedResources, one registered document at a time.
WalkSeed == At("seed") /\ Walks(WalkDocument(rm, Call.doc, Call.uri, "modern"))

WalkRoot == At("walk") /\ Walks(WalkResource(rm, RootURI, RootDraft))

\* bindInto: the children under $defs come before the references, the others
\* after them, as in the order of the keywords' names.
BindNode ==
    /\ At("bind")
    /\ LET n == Call.n
           draft == Drafted(S(n), Call.draft)
           base == IF RefOnly(S(n), draft) THEN Call.base ELSE Named(S(n), Call.base)
           stack == Call.stack \cup {base}
           Children(kinds) ==
               LET kids == Kids(n, kinds)
               IN [i \in DOMAIN kids |-> Bind(kids[i], base, stack, draft)]
           references == [i \in DOMAIN S(n).refs |-> BindRef(S(n).refs[i], base, stack, draft)]
       IN IF S(n).fault = "shape" THEN Throw
          ELSE Then(Children({"$defs"}) \o references \o Children({"definitions", "applied"}))
    /\ UNCHANGED << given, rm, cache, eval, seen, work, loads, faults >>

\* Mutant: a $ref that cannot be resolved is left for the validation.
WrongUnbound(kw) == FALSE
\* Only $ref must resolve while binding.
Unbound(kw) == kw = "$ref"

\* buildBinding
BindReference ==
    /\ At("bindref")
    /\ IF Call.ref.kw = "$recursiveRef" THEN Then(<< >>) /\ UNCHANGED << rm, loads, faults >>
       ELSE \E got \in Resolutions(Call.base, Call.ref, Call.stack, Call.draft) :
               /\ Learn(got)
               /\ IF got.target = None /\ ~got.lazy /\ Unbound(Call.ref.kw) THEN Throw ELSE Then(<< >>)
    /\ UNCHANGED << given, cache, eval, seen, work >>

\* vocabularies: a custom meta-schema is fetched too, and may require a
\* vocabulary that is not known.
Vocabularies ==
    /\ At("vocabularies")
    /\ IF world.meta.uri.path = << >> THEN Then(<< >>) /\ UNCHANGED << rm, loads, faults >>
       ELSE \E got \in Resolutions(<< >>, world.meta, {}, RootDraft) :
               /\ Learn(got)
               /\ IF got.target # None /\ S(got.target).fault = "vocabulary" THEN Throw ELSE Then(<< >>)
    /\ UNCHANGED << given, cache, eval, seen, work >>

-----------------------------------------------------------------------------
(* Subschemas *)

\* draftAt
DraftAt(n) ==
    IF S(n).draft # None THEN S(n).draft
    ELSE IF n \in DOMAIN rm.owner THEN rm.reg[rm.byURI[rm.owner[n].uri]].draft
    ELSE RootDraft

\* Mutant: the $id of a walked node is resolved once more.
WrongApplied(n, base) == IF HasID(S(n)) THEN Named(S(n), base) ELSE << >>

\* applyID: the URI of the resource n opens, << >> if it opens none.
Applied(n, base) ==
    IF ~HasID(S(n)) THEN << >>
    ELSE IF n \in DOMAIN rm.owner THEN IF rm.owner[n].root = n THEN rm.owner[n].uri ELSE << >>
    ELSE Named(S(n), base)

\* targetBase
TargetBase(n, fallback) ==
    IF n \in DOMAIN rm.owner /\ rm.owner[n].uri # << >> THEN rm.owner[n].uri ELSE fallback

InFlight(key) == \E i \in DOMAIN todo : todo[i].call = "promote" /\ todo[i].key = key

\* buildSubschemaIn and populateSubschema: the references of the node, then
\* its subschemas, then the subschema enters the cache.
EnterNode ==
    /\ At("enter")
    /\ IF Call.key \in DOMAIN cache \/ InFlight(Call.key) THEN Then(<< >>)
       ELSE LET n == Call.n
                draft == DraftAt(n)
                alone == RefOnly(S(n), draft)
                uri == IF alone THEN << >> ELSE Applied(n, Call.base)
                base == IF uri = << >> THEN Call.base ELSE uri
                kids == IF alone THEN << >> ELSE Kids(n, {"applied"})
                sub == [node |-> n, base |-> base, crosses |-> Call.crosses \/ uri # << >>,
                        kids |-> {Call.key \o Tokens(kids[i]) : i \in DOMAIN kids}]
            IN Then([i \in DOMAIN S(n).refs |->
                       [call |-> "resolve", id |-> << Call.key, i >>, ref |-> S(n).refs[i],
                        base |-> base, draft |-> draft]]
                    \o [i \in DOMAIN kids |-> Enter(kids[i], Call.key \o Tokens(kids[i]), base, FALSE)]
                    \o << [call |-> "promote", key |-> Call.key, sub |-> sub] >>)
    /\ UNCHANGED << given, rm, cache, eval, seen, work, loads, faults >>

\* The builders of $ref, $dynamicRef and $recursiveRef.  A reference that
\* cannot be resolved fails the instances that reach it, not the build.
ResolveReference ==
    /\ At("resolve")
    /\ LET base == IF Call.base = << >> THEN RootURI ELSE Call.base
           ref == Call.ref
           Names(n) == Len(ref.frag) = 1 /\ n # None /\ S(n).dyn = ref.frag[1]
       IN IF Call.draft = "legacy" /\ ref.kw # "$ref" THEN UNCHANGED << rm, loads, faults, eval >>
          ELSE \E got \in Resolutions(base, ref, {}, Call.draft) :
                  /\ Learn(got)
                  /\ eval' = Put(eval, Call.id,
                         [kw |-> ref.kw, key |-> got.key, uri |-> got.uri, target |-> got.target,
                          name |-> IF ref.kw = "$dynamicRef" /\ Names(got.target) THEN ref.frag[1] ELSE None,
                          built |-> {}, failed |-> {}])
    /\ Then(<< >>)
    /\ UNCHANGED << given, cache, seen, work >>

\* The end of buildSubschemaIn, or the error of a keyword's builder.
Promote ==
    /\ At("promote")
    /\ IF S(Call.sub.node).fault = "builder" THEN Throw /\ UNCHANGED cache
       ELSE cache' = Put(cache, Call.key, Call.sub) /\ Then(<< >>)
    /\ UNCHANGED << given, rm, eval, seen, work, loads, faults >>

-----------------------------------------------------------------------------
(* buildAll *)

Rank == [t \in ToSet(Alphabet) |-> CHOOSE i \in DOMAIN Alphabet : Alphabet[i] = t]
Before(k, l) ==
    \E i \in DOMAIN l :
        /\ \A j \in 1 .. i - 1 : j \in DOMAIN k /\ k[j] = l[j]
        /\ i \in DOMAIN k => Rank[k[i]] < Rank[l[i]]
Sorted(keys) ==
    [i \in 1 .. Cardinality(keys) |->
        CHOOSE k \in keys : Cardinality({l \in keys : Before(l, k)}) = i - 1]

\* Mutant: the targets of a dynamic reference share its location key.
WrongTargetKey(e, target) == IF e.kw = "$dynamicRef" THEN << "dyn:" >> \o e.key ELSE e.key
\* The location key under which a target is built.
TargetKey(e, target) ==
    CASE e.kw = "$ref" -> e.key
      [] e.kw = "$dynamicRef" -> << "dyn:", target >>
      [] e.kw = "$recursiveRef" -> << "rec:", target >>

Prebuild(id, target) ==
    << Enter(target, TargetKey(eval[id], target), TargetBase(target, eval[id].uri), TRUE),
       Settle(id, target) >>

\* Mutant: a subschema that was visited is visited again.
WrongPending == DOMAIN cache
\* The subschemas whose references have no target yet.
Pending == DOMAIN cache \ seen

\* One round: the targets of every subschema not visited yet, by location,
\* then the schemas the dynamic scope could select.  When there is none left
\* the builder is frozen.
Round ==
    /\ At("round")
    /\ LET pending == Sorted(Pending)
       IN IF pending = << >> THEN todo' = << >> /\ outcome' = "compiled"
          ELSE /\ todo' = [i \in DOMAIN pending |-> [call |-> "targets", key |-> pending[i]]]
                              \o << Just("scan"), Just("round") >>
               /\ UNCHANGED outcome
    /\ UNCHANGED << given, rm, cache, eval, seen, work, loads, faults >>

\* buildTargets
BuildTargets ==
    /\ At("targets")
    /\ LET ids == Those([i \in DOMAIN S(cache[Call.key].node).refs |-> << Call.key, i >>], DOMAIN eval)
           known == Those(ids, {id \in DOMAIN eval : eval[id].target # None})
       IN /\ Then(FlattenSeq([i \in DOMAIN known |-> Prebuild(known[i], eval[known[i]].target)]))
          /\ work' = work \o Those(ids, {id \in DOMAIN eval : eval[id].kw # "$ref"})
    /\ seen' = seen \cup {Call.key}
    /\ UNCHANGED << given, rm, cache, eval, loads, faults >>

\* Mutant: only the references of the last round are given the new targets.
WrongScan ==
    /\ At("scan")
    /\ Then([i \in DOMAIN rm.order |-> [call |-> "resource", uri |-> rm.order[i]]])
    /\ work' = << >>
    /\ UNCHANGED << given, rm, cache, eval, seen, loads, faults >>

\* buildDynamicTargets
Scan ==
    /\ At("scan")
    /\ Then([i \in DOMAIN rm.order |-> [call |-> "resource", uri |-> rm.order[i]]])
    /\ UNCHANGED << given, rm, cache, eval, seen, work, loads, faults >>

ScanResource ==
    /\ At("resource")
    /\ LET r == rm.byURI[Call.uri]
           data == rm.reg[r]
           dynamic == Those(work, {id \in DOMAIN eval : eval[id].kw = "$dynamicRef"
                                                           /\ eval[id].name \in DOMAIN data.dynamic})
           recursive == Those(work, {id \in DOMAIN eval : eval[id].kw = "$recursiveRef" /\ data.recursive})
       IN Then(FlattenSeq([i \in DOMAIN dynamic |->
                             Prebuild(dynamic[i], data.dynamic[eval[dynamic[i]].name])])
               \o FlattenSeq([i \in DOMAIN recursive |-> Prebuild(recursive[i], r.root)]))
    /\ UNCHANGED << given, rm, cache, eval, seen, work, loads, faults >>

\* The reference keeps what was built for it, or why it was not.
SettleTarget ==
    /\ At("settle")
    /\ LET e == eval[Call.id]
       IN eval' = [eval EXCEPT ![Call.id] =
                     IF TargetKey(e, Call.target) \in DOMAIN cache
                     THEN [e EXCEPT !.built = e.built \cup {Call.target}]
                     ELSE [e EXCEPT !.failed = e.failed \cup {Call.target}]]
    /\ Then(<< >>)
    /\ UNCHANGED << given, rm, cache, seen, work, loads, faults >>

Step ==
    \/ WalkSeed \/ WalkRoot
    \/ BindNode \/ BindReference \/ Vocabularies
    \/ EnterNode \/ ResolveReference \/ Promote
    \/ Round \/ BuildTargets \/ Scan \/ ScanResource \/ SettleTarget

\* Compile has returned.
Returned == outcome # "running" /\ UNCHANGED vars

Next == Step \/ Returned

\* The compiling goroutine runs to the end of Compile.  This is weak fairness
\* of Step, which is enabled as long as Compile runs: the runs check deadlock.
Fairness == []<><<Step>>_vars \/ <>(outcome # "running")
Spec == Init /\ [][Next]_vars /\ Fairness

-----------------------------------------------------------------------------
(* What a compilation keeps *)

\* The map, the cache and the evaluators hold nodes of the documents, a
\* subschema is kept after all those it applies, and a compilation that ended
\* has no call left.
TypeOK ==
    /\ \A u \in DOMAIN rm.byURI : rm.byURI[u] \in DOMAIN rm.reg /\ rm.byURI[u].uri = u
    /\ DOMAIN rm.owner \subseteq DOMAIN world.schema /\ ~rm.failed
    /\ Len(rm.order) = Cardinality(DOMAIN rm.byURI) /\ ToSet(rm.order) = DOMAIN rm.byURI
    /\ \A k \in DOMAIN cache : cache[k].node \in DOMAIN world.schema /\ cache[k].kids \subseteq DOMAIN cache
    /\ \A id \in DOMAIN eval :
          /\ eval[id].target \in DOMAIN world.schema \cup {None}
          /\ eval[id].built \cup eval[id].failed \subseteq DOMAIN world.schema
    /\ outcome # "running" => todo = << >>
    /\ faults \in 0 .. MaxFaults

\* Anchors are scoped to the resource they are declared in, also when that
\* resource lost its URI to another.
AnchorsScoped ==
    \A r \in DOMAIN rm.reg : \A name \in DOMAIN rm.reg[r].anchors :
        rm.owner[rm.reg[r].anchors[name]] = r

\* One compilation fetches a document at most once, even one whose walk failed.
FetchedOnce == \A i, j \in DOMAIN loads : loads[i] = loads[j] => i = j

\* When Compile returns, every $ref of a subschema it keeps has an evaluator, and
\* the target of every reference is built or known to be impossible to build,
\* however often a failing build was abandoned and its location entered again.
TargetsSettled ==
    outcome = "compiled" =>
        \A k \in DOMAIN cache : \A i \in DOMAIN S(cache[k].node).refs :
            /\ S(cache[k].node).refs[i].kw = "$ref" => << k, i >> \in DOMAIN eval
            /\ << k, i >> \in DOMAIN eval =>
                  eval[<< k, i >>].target \in {None} \cup eval[<< k, i >>].built \cup eval[<< k, i >>].failed

\* What a compile keeps agrees: the map's URIs, resources and anchors, the
\* documents it asked for, subschemas and those they apply, references and what
\* was built for them.
Consistent == TypeOK /\ AnchorsScoped /\ FetchedOnce /\ TargetsSettled
=============================================================================
