---------------------------- MODULE Builder_proofs ----------------------------
(***************************************************************************)
(* What every compilation of Builder keeps, whatever the documents, their   *)
(* references and the failures of the loader: the resource map is well      *)
(* formed and its anchors stay in their resource, a document is fetched at  *)
(* most once, subschemas enter the cache after those they apply, and when   *)
(* Compile returns every target of a reference has been built or given up.  *)
(*                                                                          *)
(* The inductive invariant adds to that what makes the calls still to be    *)
(* made come out right: their order on the Go stack (locations grow towards *)
(* its top, and nothing but parts of one build lies above that build) and   *)
(* what each of them finds when its turn comes.                             *)
(***************************************************************************)
EXTENDS Builder, Recursion_proofs, FiniteSetTheorems

-----------------------------------------------------------------------------
(* The order in which subschemas are visited *)

(* A token has a rank, and no other token has the same. *)
LEMMA Ranks ==
  \A t \in Token : Rank[t] \in Nat /\ \A v \in Token : Rank[t] = Rank[v] => t = v
<1>1. \A t \in Token : \E i \in DOMAIN Alphabet : Alphabet[i] = t
  BY DEF Token, ToSet
<1>2. \A t \in Token : Rank[t] \in DOMAIN Alphabet /\ Alphabet[Rank[t]] = t
  BY <1>1 DEF Rank, Token
<1>3. DOMAIN Alphabet \subseteq Nat
  BY AlphabetAssumption
<1>4. QED
  BY <1>2, <1>3

(* No location comes before itself. *)
LEMMA BeforeIrreflexive ==
  ASSUME NEW k \in Path
  PROVE  ~Before(k, k)
<1>1. \A i \in DOMAIN k : k[i] \in Token
  BY DEF Path
<1>2. \A i \in DOMAIN k : ~(Rank[k[i]] < Rank[k[i]])
  BY <1>1, Ranks
<1>3. QED
  BY <1>2 DEF Before

(* The order of locations is transitive. *)
LEMMA BeforeTransitive ==
  ASSUME NEW a \in Path, NEW b \in Path, NEW c \in Path, Before(a, b), Before(b, c)
  PROVE  Before(a, c)
<1>1. /\ \A i \in DOMAIN a : Rank[a[i]] \in Nat
      /\ \A i \in DOMAIN b : Rank[b[i]] \in Nat
      /\ \A i \in DOMAIN c : Rank[c[i]] \in Nat
  BY Ranks DEF Path
<1>2. PICK i \in DOMAIN b : /\ \A x \in 1 .. i - 1 : x \in DOMAIN a /\ a[x] = b[x]
                            /\ i \in DOMAIN a => Rank[a[i]] < Rank[b[i]]
  BY DEF Before
<1>3. PICK j \in DOMAIN c : /\ \A x \in 1 .. j - 1 : x \in DOMAIN b /\ b[x] = c[x]
                            /\ j \in DOMAIN b => Rank[b[j]] < Rank[c[j]]
  BY DEF Before
<1>4. i \in Nat /\ j \in Nat /\ DOMAIN a = 1 .. Len(a) /\ DOMAIN b = 1 .. Len(b) /\ DOMAIN c = 1 .. Len(c)
      /\ Len(a) \in Nat /\ Len(b) \in Nat /\ Len(c) \in Nat
  BY DEF Path
<1>5. CASE i < j
  <2>1. i \in DOMAIN c /\ i \in 1 .. j - 1 /\ \A x \in 1 .. i - 1 : x \in 1 .. j - 1
    BY <1>4, <1>5
  <2>2. b[i] = c[i] /\ \A x \in 1 .. i - 1 : x \in DOMAIN a /\ a[x] = c[x]
    BY <1>2, <1>3, <2>1
  <2>3. i \in DOMAIN a => Rank[a[i]] < Rank[c[i]]
    BY <1>2, <2>2
  <2>4. QED
    BY <2>1, <2>2, <2>3 DEF Before
<1>6. CASE j < i
  <2>1. j \in 1 .. i - 1 /\ \A x \in 1 .. j - 1 : x \in 1 .. i - 1
    BY <1>4, <1>6
  <2>2. j \in DOMAIN a /\ a[j] = b[j] /\ \A x \in 1 .. j - 1 : x \in DOMAIN a /\ a[x] = c[x]
    BY <1>2, <1>3, <2>1
  <2>3. j \in DOMAIN b
    BY <1>4, <1>6
  <2>4. Rank[a[j]] < Rank[c[j]]
    BY <1>3, <2>2, <2>3
  <2>5. QED
    BY <2>2, <2>4 DEF Before
<1>7. CASE i = j
  <2>1. \A x \in 1 .. j - 1 : x \in DOMAIN a /\ a[x] = c[x]
    BY <1>2, <1>3, <1>7
  <2>2. j \in DOMAIN b /\ (j \in DOMAIN a => Rank[a[j]] < Rank[b[j]])
    BY <1>2, <1>7
  <2>3. j \in DOMAIN a => Rank[a[j]] < Rank[c[j]]
    BY <1>1, <1>3, <2>2
  <2>4. QED
    BY <2>1, <2>3 DEF Before
<1>8. QED
  BY <1>4, <1>5, <1>6, <1>7

(* Of two locations one comes first: the order of the alphabet decides where they
   part. *)
LEMMA BeforeTotal ==
  ASSUME NEW k \in Path, NEW l \in Path, k # l
  PROVE  Before(k, l) \/ Before(l, k)
<1> DEFINE Apart == {i \in Nat : i > 0 /\ ~(i \in DOMAIN k /\ i \in DOMAIN l /\ k[i] = l[i])}
<1>1. /\ DOMAIN k = 1 .. Len(k) /\ DOMAIN l = 1 .. Len(l) /\ Len(k) \in Nat /\ Len(l) \in Nat
      /\ k \in Seq(Token) /\ l \in Seq(Token)
  BY DEF Path
<1>2. Len(k) + 1 \in Apart
  BY <1>1
<1>3. PICK i \in Apart : \A j \in Apart : i <= j
  BY <1>2, LeastNat
<1>4. \A j \in 1 .. i - 1 : j \in DOMAIN k /\ j \in DOMAIN l /\ k[j] = l[j]
  BY <1>3
<1>5. CASE i \in DOMAIN k /\ i \in DOMAIN l
  <2>1. k[i] # l[i] /\ k[i] \in Token /\ l[i] \in Token
    BY <1>1, <1>3, <1>5
  <2>2. Rank[k[i]] < Rank[l[i]] \/ Rank[l[i]] < Rank[k[i]]
    BY <2>1, Ranks
  <2>3. QED
    BY <1>4, <1>5, <2>2 DEF Before
<1>6. CASE i \in DOMAIN k /\ i \notin DOMAIN l
  BY <1>4, <1>6 DEF Before
<1>7. CASE i \notin DOMAIN k /\ i \in DOMAIN l
  BY <1>4, <1>7 DEF Before
<1>8. CASE i \notin DOMAIN k /\ i \notin DOMAIN l
  <2>1. i \in Nat /\ i > 0
    BY <1>3
  <2>2. Len(k) < i /\ Len(l) < i
    BY <1>1, <1>8, <2>1
  <2>3. ~(Len(k) < Len(l)) /\ ~(Len(l) < Len(k))
    <3>1. ASSUME Len(k) < Len(l) PROVE FALSE
      <4>1. Len(l) \in 1 .. i - 1 /\ Len(l) \notin DOMAIN k
        BY <1>1, <2>1, <2>2, <3>1
      <4>2. QED
        BY <1>4, <4>1
    <3>2. ASSUME Len(l) < Len(k) PROVE FALSE
      <4>1. Len(k) \in 1 .. i - 1 /\ Len(k) \notin DOMAIN l
        BY <1>1, <2>1, <2>2, <3>2
      <4>2. QED
        BY <1>4, <4>1
    <3>3. QED
      BY <3>1, <3>2
  <2>4. \A j \in 1 .. Len(k) : j \in 1 .. i - 1
    BY <1>1, <2>1, <2>2
  <2>5. Len(k) = Len(l) /\ \A j \in 1 .. Len(k) : k[j] = l[j]
    <3>1. Len(k) = Len(l)
      <4>1. Len(k) \in Nat /\ Len(l) \in Nat
        BY <1>1
      <4>2. QED
        BY ONLY <2>3, <4>1
    <3>2. \A j \in 1 .. Len(k) : k[j] = l[j]
      BY <1>4, <2>4, Zenon
    <3>3. QED
      BY <3>1, <3>2
  <2>6. QED
    BY <1>1, <2>5, SeqEqual
<1>9. QED
  BY <1>5, <1>6, <1>7, <1>8

(* Sorted lists locations of the set it is given, and none only if there is none. *)
LEMMA SortedElements ==
  ASSUME NEW keys, keys \subseteq Path, IsFiniteSet(keys)
  PROVE  Sorted(keys) \in Seq(keys) /\ (Sorted(keys) = << >> => keys = {})
<1> DEFINE n == Cardinality(keys)
           Below(k) == {l \in keys : Before(l, k)}
           rank == [k \in keys |-> Cardinality(Below(k))]
<1>1. n \in Nat
  BY FS_CardinalityType
<1>2. \A k \in keys : IsFiniteSet(Below(k)) /\ Below(k) \subseteq keys
  BY FS_Subset
<1>3. \A k \in keys : rank[k] \in 0 .. n - 1
  <2> SUFFICES ASSUME NEW k \in keys PROVE rank[k] \in 0 .. n - 1
    OBVIOUS
  <2>1. k \notin Below(k)
    BY BeforeIrreflexive
  <2>2. Cardinality(Below(k)) \in Nat /\ Cardinality(Below(k)) <= n
    BY <1>2, FS_CardinalityType, FS_Subset
  <2>3. Cardinality(Below(k)) # n
    BY <1>2, <2>1, FS_Subset
  <2>4. QED
    BY <1>1, <2>2, <2>3
<1>4. \A k, l \in keys : k # l => rank[k] # rank[l]
  <2>1. ASSUME NEW k \in keys, NEW l \in keys, Before(k, l) PROVE rank[k] # rank[l]
    <3>1. k \in Below(l) /\ k \notin Below(k)
      BY <2>1, BeforeIrreflexive
    <3>2. Below(k) \subseteq Below(l)
      <4>1. ASSUME NEW x \in keys, Before(x, k) PROVE Before(x, l)
        <5>1. x \in Path /\ k \in Path /\ l \in Path
          OBVIOUS
        <5>2. QED
          BY <2>1, <4>1, <5>1, BeforeTransitive
      <4>2. QED
        BY <4>1
    <3>3. Below(k) # Below(l)
      BY <3>1
    <3> HIDE DEF Below
    <3>4. Cardinality(Below(k)) # Cardinality(Below(l))
      BY <1>2, <3>2, <3>3, FS_Subset
    <3>5. QED
      BY <3>4
  <2>2. \A k, l \in keys : k # l => Before(k, l) \/ Before(l, k)
    BY BeforeTotal
  <2> HIDE DEF rank
  <2>3. QED
    BY <2>1, <2>2
<1> HIDE DEF Below
<1> DEFINE image == {rank[k] : k \in keys}
<1>5. IsFiniteSet(image) /\ Cardinality(image) = n
  <2>1. rank \in [keys -> image]
    OBVIOUS
  <2> HIDE DEF rank
  <2>2. IsInjective(rank)
    BY <1>4, <2>1 DEF IsInjective
  <2>3. rank \in Surjection(keys, image)
    BY <2>1 DEF Surjection
  <2>4. rank \in Bijection(keys, image)
    BY <2>1, <2>3, <1>4 DEF Bijection, Injection, IsInjective
  <2> HIDE DEF image
  <2>5. QED
    BY <2>4, FS_Bijection DEF ExistsBijection
<1>6. image = 0 .. n - 1
  <2>1. image \subseteq 0 .. n - 1
    BY <1>3
  <2>2. IsFiniteSet(0 .. n - 1) /\ Cardinality(0 .. n - 1) = n
    BY <1>1, FS_Interval
  <2> HIDE DEF image, n
  <2>3. QED
    BY <1>5, <2>1, <2>2, FS_Subset
<1>7. ASSUME NEW i \in 1 .. n PROVE Sorted(keys)[i] \in keys
  <2>1. i - 1 \in image
    <3>1. i - 1 \in 0 .. n - 1
      BY <1>1
    <3> HIDE DEF image, n
    <3>2. QED
      BY <1>6, <3>1
  <2>2. \E k \in keys : rank[k] = i - 1
    <3> HIDE DEF rank
    <3>1. QED
      BY <2>1
  <2>3. \E k \in keys : Cardinality({l \in keys : Before(l, k)}) = i - 1
    BY <2>2 DEF Below
  <2>4. Sorted(keys)[i] = CHOOSE k \in keys : Cardinality({l \in keys : Before(l, k)}) = i - 1
    BY DEF Sorted
  <2>5. QED
    BY <2>3, <2>4
<1>8. Sorted(keys) \in Seq(keys) /\ Len(Sorted(keys)) = n
  <2> DEFINE pick(i) == CHOOSE k \in keys : Cardinality({l \in keys : Before(l, k)}) = i - 1
  <2>1. Sorted(keys) = [i \in 1 .. n |-> pick(i)]
    BY DEF Sorted
  <2> HIDE DEF pick, n
  <2>2. \A i \in 1 .. n : pick(i) \in keys
    BY <1>7, <2>1
  <2>3. QED
    BY <1>1, <2>1, <2>2
<1>9. Sorted(keys) = << >> => n = 0
  BY <1>8
<1>10. QED
  BY <1>8, <1>9, FS_EmptySet

-----------------------------------------------------------------------------
(* The inductive invariant *)

Node(w) == DOMAIN w.schema
Resource(w) == [uri : Path, root : Node(w)]

\* A resource map: URIs stand for resources it has data of, which have their
\* URIs in it, and anchors name nodes that belong to their resource.
Shaped(m) ==
    m = [byURI |-> m.byURI, order |-> m.order, rootURI |-> m.rootURI, owner |-> m.owner,
         reg |-> m.reg, failed |-> m.failed, collided |-> m.collided]
UrisOK(m) == \A u \in DOMAIN m.byURI : u \in Path /\ m.byURI[u] \in DOMAIN m.reg /\ m.byURI[u].uri = u
Listed(m) ==
    /\ m.order \in Seq(Path) /\ ToSet(m.order) = DOMAIN m.byURI
    /\ IsFiniteSet(DOMAIN m.byURI) /\ Len(m.order) = Cardinality(DOMAIN m.byURI)
OwnersOK(w, m) == \A n \in DOMAIN m.owner : n \in Node(w) /\ m.owner[n] \in DOMAIN m.reg
DataOK(w, m, r, data) ==
    /\ data = [anchors |-> data.anchors, dynamic |-> data.dynamic, recursive |-> data.recursive,
               draft |-> data.draft, external |-> data.external]
    /\ data.draft \in Draft
    /\ \A name \in DOMAIN data.anchors :
          data.anchors[name] \in DOMAIN m.owner /\ m.owner[data.anchors[name]] = r
    /\ \A name \in DOMAIN data.dynamic : data.dynamic[name] \in Node(w)
ResourcesOK(w, m) ==
    \A r \in DOMAIN m.reg : r \in Resource(w) /\ r.uri \in DOMAIN m.byURI /\ DataOK(w, m, r, m.reg[r])
MapOK(w, m) == Shaped(m) /\ UrisOK(m) /\ Listed(m) /\ OwnersOK(w, m) /\ ResourcesOK(w, m)

\* What a walk of document d leaves: nothing is lost, and only its nodes are new.
Grown(w, m, q, d) ==
    /\ DOMAIN m.byURI \subseteq DOMAIN q.byURI /\ DOMAIN m.reg \subseteq DOMAIN q.reg
    /\ \A n \in DOMAIN q.owner : n \in DOMAIN m.owner \/ w.schema[n].doc = d

\* No node of the document has been walked.
Unwalked(w, m, d) == \A n \in DOMAIN m.owner : w.schema[n].doc # d

\* A document still to be fetched has not been walked, and what was fetched has
\* its URI in the map: it is not fetched again.
Fetching(w, m, l) ==
    /\ \A u \in DOMAIN w.remote : u \notin DOMAIN m.byURI => Unwalked(w, m, w.remote[u])
    /\ l \in Seq(DOMAIN m.byURI) /\ \A i, j \in DOMAIN l : l[i] = l[j] => i = j

ID == Path \X Nat
Subschema(w) == [node : Node(w), base : Path, crosses : BOOLEAN, kids : SUBSET Path]
Evaluator(w) ==
    [kw : {"$ref", "$dynamicRef", "$recursiveRef"}, key : Path, uri : Path, target : Node(w) \cup {None},
     name : Token \cup {None}, built : SUBSET Node(w), failed : SUBSET Node(w)]

SeedCall(w) == [call : {"seed"}, uri : Path, doc : DOMAIN w.docs \ {w.doc}]
PlainCall == [call : {"walk", "vocabularies", "scan", "round"}]
BindCall(w) == [call : {"bind"}, n : Node(w), base : Path, stack : SUBSET Path, draft : Draft]
BindRefCall == [call : {"bindref"}, ref : KeywordRef, base : Path, stack : SUBSET Path, draft : Draft]
EnterCall(w) == [call : {"enter"}, n : Node(w), key : Path, base : Path, crosses : BOOLEAN]
ResolveCall == [call : {"resolve"}, id : ID, ref : KeywordRef, base : Path, draft : Draft]
PromoteCall(w) == [call : {"promote"}, key : Path, sub : Subschema(w)]
SettleCall(w) == [call : {"settle"}, id : ID, target : Node(w)]
TargetsCall == [call : {"targets"}, key : Path]
ResourceCall == [call : {"resource"}, uri : Path]
Calls(w) ==
    SeedCall(w) \cup PlainCall \cup BindCall(w) \cup BindRefCall \cup EnterCall(w) \cup ResolveCall
        \cup PromoteCall(w) \cup SettleCall(w) \cup TargetsCall \cup ResourceCall

\* What a call to be made relies on.
CallReady(w, m, c, e, call) ==
    CASE call.call = "seed" ->
            /\ Unwalked(w, m, call.doc)
            /\ \A u \in DOMAIN w.remote : w.remote[u] # call.doc
      [] call.call = "walk" -> Unwalked(w, m, w.doc)
      [] call.call = "promote" -> call.key \notin DOMAIN c
      [] call.call = "settle" -> call.id \in DOMAIN e
      [] call.call = "targets" -> call.key \in DOMAIN c
      [] call.call = "resource" -> call.uri \in DOMAIN m.byURI
      [] OTHER -> TRUE

\* The order of the calls: registered documents and the schema are walked first;
\* a subschema being built is below the ones around it, whose locations are
\* shorter, with nothing but parts of the build between; a round is the last.
Inner == {"enter", "resolve", "promote"}
InOrder(a, b) ==
    /\ a.call # "round"
    /\ b.call = "seed" => a.call = "seed" /\ a.doc # b.doc
    /\ b.call = "walk" => a.call = "seed"
    /\ b.call = "resolve" => a.call = "resolve"
    /\ b.call = "promote" =>
          /\ a.call \in Inner
          /\ a.call \in {"enter", "promote"} => Len(b.key) < Len(a.key)
          /\ a.call = "resolve" => Len(b.key) <= Len(a.id[1])
Ordered(t) == \A j \in DOMAIN t : \A i \in 1 .. j - 1 : InOrder(t[i], t[j])

\* A subschema being built waits for those it applies and for its references.
Building(w, c, e, t, j) ==
    /\ \A k \in t[j].sub.kids :
          k \in DOMAIN c \/ \E i \in 1 .. j - 1 : t[i].call \in {"enter", "promote"} /\ t[i].key = k
    /\ \A i \in DOMAIN w.schema[t[j].sub.node].refs :
          w.schema[t[j].sub.node].refs[i].kw = "$ref" =>
             \/ << t[j].key, i >> \in DOMAIN e
             \/ \E x \in 1 .. j - 1 : t[x].call = "resolve" /\ t[x].id = << t[j].key, i >>
\* A reference is resolved for the subschema that is being built at its location.
Resolving(w, t, i) ==
    \E j \in DOMAIN t :
        /\ t[j].call = "promote" /\ t[j].key = t[i].id[1]
        /\ t[i].id[2] \in DOMAIN w.schema[t[j].sub.node].refs
        /\ t[i].ref = w.schema[t[j].sub.node].refs[t[i].id[2]]

TodoOK(w, m, c, e, t) ==
    /\ t \in Seq(Calls(w))
    /\ \A i \in DOMAIN t : CallReady(w, m, c, e, t[i])
    /\ Ordered(t)
    /\ \A j \in DOMAIN t : t[j].call = "promote" => Building(w, c, e, t, j)
    /\ \A i \in DOMAIN t : t[i].call = "resolve" => Resolving(w, t, i)

CacheOK(w, c, e) ==
    /\ IsFiniteSet(DOMAIN c) /\ DOMAIN c \subseteq Path
    /\ \A k \in DOMAIN c :
          /\ c[k] \in Subschema(w) /\ c[k].kids \subseteq DOMAIN c
          /\ \A i \in DOMAIN w.schema[c[k].node].refs :
                w.schema[c[k].node].refs[i].kw = "$ref" => << k, i >> \in DOMAIN e

EvalOK(w, e) == DOMAIN e \subseteq ID /\ \A id \in DOMAIN e : e[id] \in Evaluator(w)

\* A reference of a subschema that was visited has what was built for it, or the
\* call that will give it.
SeenOK(w, c, e, t, s) ==
    /\ s \subseteq DOMAIN c
    /\ \A k \in s : \A i \in DOMAIN w.schema[c[k].node].refs :
          LET id == << k, i >>
          IN (id \in DOMAIN e /\ e[id].target # None) =>
                \/ e[id].target \in e[id].built \cup e[id].failed
                \/ \E x \in DOMAIN t : t[x] = Settle(id, e[id].target)

EndOK(c, t, s, o) ==
    /\ o # "running" => t = << >>
    /\ o = "compiled" => DOMAIN c \subseteq s

BInv ==
    /\ WorldOK(world) /\ MapOK(world, rm) /\ ~rm.failed
    /\ Fetching(world, rm, loads)
    /\ EvalOK(world, eval) /\ CacheOK(world, cache, eval)
    /\ TodoOK(world, rm, cache, eval, todo)
    /\ SeenOK(world, cache, eval, todo, seen)
    /\ work \in Seq(DOMAIN eval)
    /\ EndOK(cache, todo, seen, outcome) /\ faults \in 0 .. MaxFaults

-----------------------------------------------------------------------------
(* Types of what the operators on documents return *)

(* The fields of a schema object. *)
LEMMA Fields ==
  ASSUME WorldOK(world), NEW n \in Node(world)
  PROVE  /\ n \in Token /\ n # None /\ S(n) = world.schema[n]
         /\ S(n).doc \in DOMAIN world.docs /\ S(n).path \in Path
         /\ S(n).id \in Reference \cup {None} /\ S(n).draft \in Draft \cup {None}
         /\ S(n).plain \in Token \cup {None} /\ S(n).anchor \in Token \cup {None}
         /\ S(n).dyn \in Token \cup {None}
         /\ S(n).refs \in Seq(KeywordRef)
  BY DEF WorldOK, SchemaOK, Node, S

(* A schema object lies inside its parent, and is walked only if that is. *)
LEMMA ParentFields ==
  ASSUME WorldOK(world), NEW n \in Node(world), S(n).parent # None
  PROVE  S(n).parent \in Node(world) /\ Len(S(S(n).parent).path) < Len(S(n).path)
         /\ (S(n).walked => S(S(n).parent).walked)
  BY DEF WorldOK, SchemaOK, Node, S

(* Resolving a reference against a base gives a URI. *)
LEMMA ResolvedPath ==
  ASSUME NEW base \in Path, NEW ref \in Reference
  PROVE  Resolved(base, ref) \in Path
<1>1. ref.path \in Path
  BY DEF Reference
<1>2. CASE base = << >>
  BY <1>1, <1>2 DEF Resolved
<1>3. CASE base # << >>
  <2>1. Front(base) \in Path
    BY <1>3 DEF Path, Front
  <2>2. Front(base) \o ref.path \in Path
    BY <1>1, <2>1 DEF Path
  <2>3. QED
    BY <1>1, <1>3, <2>2 DEF Resolved
<1>4. QED
  BY <1>2, <1>3

(* The $id of a schema names a URI. *)
LEMMA NamedPath ==
  ASSUME WorldOK(world), NEW n \in Node(world), NEW base \in Path
  PROVE  Named(S(n), base) \in Path
  BY Fields, ResolvedPath DEF Named

(* A schema has a draft of its own or inherits one. *)
LEMMA DraftedIn ==
  ASSUME WorldOK(world), NEW n \in Node(world), NEW inherited \in Draft
  PROVE  Drafted(S(n), inherited) \in Draft
  BY Fields DEF Drafted

(* A document has a first node, which is its own. *)
LEMMA Roots ==
  ASSUME WorldOK(world), NEW d \in DOMAIN world.docs
  PROVE  world.docs[d] \in Seq(Node(world)) /\ world.docs[d][1] \in Node(world)
         /\ S(world.docs[d][1]).doc = d
<1>1. DocumentOK(world, d)
  BY DEF WorldOK
<1>2. world.docs[d] \in Seq(Node(world)) /\ world.docs[d] # << >>
  BY <1>1 DEF DocumentOK, Node
<1>3. 1 \in DOMAIN world.docs[d]
  BY <1>2
<1>4. QED
  BY <1>1, <1>2, <1>3 DEF DocumentOK, S

(* The schema that is compiled, its URI and its draft. *)
LEMMA RootTyped ==
  ASSUME WorldOK(world)
  PROVE  Root \in Node(world) /\ RootURI \in Path /\ RootDraft \in Draft
<1>1. world.doc \in DOMAIN world.docs /\ world.base \in Path /\ "modern" \in Draft
  BY DEF WorldOK, Draft
<1>2. Root \in Node(world)
  BY <1>1, Roots DEF Root
<1>3. QED
  BY <1>1, <1>2, NamedPath, DraftedIn DEF RootURI, RootDraft

(* The children of a node are nodes below it. *)
LEMMA KidsTyped ==
  ASSUME WorldOK(world), NEW n \in Node(world), NEW kinds
  PROVE  /\ Kids(n, kinds) \in Seq(Node(world))
         /\ \A i \in DOMAIN Kids(n, kinds) : S(Kids(n, kinds)[i]).parent = n
<1> DEFINE T == {m \in DOMAIN world.schema : S(m).parent = n /\ S(m).kind \in kinds}
           s == world.docs[S(n).doc]
<1>1. s \in Seq(Node(world))
  BY Fields, Roots
<1>2. Kids(n, kinds) = Those(s, T)
  BY DEF Kids
<1> HIDE DEF s
<1>3. Those(s, T) \in Seq(Node(world) \cap T)
  BY <1>1, ThoseElements
<1>4. \A i \in DOMAIN Those(s, T) : Those(s, T)[i] \in Node(world) \cap T
  <2> DEFINE k == Those(s, T)
             B == Node(world) \cap T
  <2>1. k \in Seq(B)
    BY <1>3
  <2> HIDE DEF k, B
  <2>2. \A i \in DOMAIN k : k[i] \in B
    BY <2>1
  <2>3. QED
    BY <2>2 DEF k, B
<1>5. Those(s, T) \in Seq(Node(world))
  <2> HIDE DEF T
  <2>1. QED
    BY <1>3
<1>6. \A x \in T : S(x).parent = n
  OBVIOUS
<1> HIDE DEF T
<1>7. QED
  BY <1>2, <1>4, <1>5, <1>6

(* A child is found by at least one token from its parent. *)
LEMMA TokensTyped ==
  ASSUME WorldOK(world), NEW n \in Node(world), S(n).parent # None
  PROVE  Tokens(n) \in Path /\ Len(Tokens(n)) > 0
<1>1. S(n).path \in Seq(Token) /\ S(S(n).parent).path \in Seq(Token)
  BY Fields, ParentFields DEF Path
<1>2. Len(S(S(n).parent).path) < Len(S(n).path)
  BY ParentFields
<1> DEFINE a == S(S(n).parent).path
           b == S(n).path
<1>0. a \in Seq(Token) /\ b \in Seq(Token) /\ Len(a) < Len(b)
  BY <1>1, <1>2
<1> HIDE DEF a, b
<1>3. SubSeq(b, Len(a) + 1, Len(b)) \in Seq(Token) /\ Len(SubSeq(b, Len(a) + 1, Len(b))) > 0
  BY ONLY <1>0
<1>4. QED
  BY <1>3 DEF a, b, Tokens, Path

-----------------------------------------------------------------------------
(* The resource map *)

(* The entry of a name, if there is a name. *)
LEMMA EntryFacts ==
  ASSUME NEW name, NEW n
  PROVE  /\ DOMAIN Entry(name, n) \subseteq {name} /\ None \notin DOMAIN Entry(name, n)
         /\ \A x \in DOMAIN Entry(name, n) : Entry(name, n)[x] = n
         /\ name = None => DOMAIN Entry(name, n) = {}
  BY DEF Entry

(* A URI that is new is listed once. *)
LEMMA Appended ==
  ASSUME NEW m, Listed(m), NEW u \in Path, u \notin DOMAIN m.byURI, NEW q,
         q.order = Append(m.order, u), DOMAIN q.byURI = DOMAIN m.byURI \cup {u}
  PROVE  Listed(q)
<1>1. m.order \in Seq(Path) /\ ToSet(m.order) = DOMAIN m.byURI
      /\ IsFiniteSet(DOMAIN m.byURI) /\ Len(m.order) = Cardinality(DOMAIN m.byURI)
  BY DEF Listed
<1>2. IsFiniteSet(DOMAIN q.byURI) /\ Cardinality(DOMAIN q.byURI) = Cardinality(DOMAIN m.byURI) + 1
  BY <1>1, FS_AddElement
<1>3. q.order \in Seq(Path) /\ Len(q.order) = Len(m.order) + 1
  BY <1>1
<1>4. ToSet(q.order) = DOMAIN q.byURI
  <2>1. DOMAIN q.order = DOMAIN m.order \cup {Len(m.order) + 1}
    BY <1>1
  <2>2. q.order[Len(m.order) + 1] = u /\ \A i \in DOMAIN m.order : q.order[i] = m.order[i]
    BY <1>1
  <2>3. QED
    BY <1>1, <2>1, <2>2 DEF ToSet
<1>5. QED
  BY <1>1, <1>2, <1>3, <1>4 DEF Listed

(* The data a resource starts with. *)
Fresh(draft, external) ==
    [anchors |-> Empty, dynamic |-> Empty, recursive |-> FALSE, draft |-> draft, external |-> external]

(* A map with a new resource, when its URI is in it, or put in it. *)
LEMMA Registered ==
  ASSUME NEW w, NEW m, MapOK(w, m), NEW r \in Resource(w), NEW draft \in Draft, NEW external,
         NEW q, Shaped(q), q.reg = Put(m.reg, r, Fresh(draft, external)), q.owner = m.owner,
         UrisOK(q), Listed(q), DOMAIN m.byURI \subseteq DOMAIN q.byURI, r.uri \in DOMAIN q.byURI
  PROVE  MapOK(w, q) /\ r \in DOMAIN q.reg /\ DOMAIN m.reg \subseteq DOMAIN q.reg
<1>1. DOMAIN q.reg = DOMAIN m.reg \cup {r} /\ q.reg[r] = Fresh(draft, external)
      /\ \A x \in DOMAIN m.reg : x # r => q.reg[x] = m.reg[x]
  BY DEF Put
<1>2. OwnersOK(w, q)
  BY <1>1 DEF MapOK, OwnersOK
<1>3. DataOK(w, q, r, Fresh(draft, external))
  BY DEF DataOK, Fresh, Empty
<1>4. ASSUME NEW x \in DOMAIN q.reg
      PROVE  x \in Resource(w) /\ x.uri \in DOMAIN q.byURI /\ DataOK(w, q, x, q.reg[x])
  <2>1. CASE x = r
    BY <1>1, <1>3, <2>1
  <2>2. CASE x # r
    <3>1. x \in Resource(w) /\ x.uri \in DOMAIN m.byURI /\ DataOK(w, m, x, m.reg[x])
      BY <1>1, <2>2 DEF MapOK, ResourcesOK
    <3>2. DataOK(w, q, x, m.reg[x])
      BY <3>1 DEF DataOK
    <3>3. QED
      BY <1>1, <2>2, <3>1, <3>2
  <2>3. QED
    BY <2>1, <2>2
<1>5. QED
  BY <1>1, <1>2, <1>4 DEF MapOK, ResourcesOK

(* Registering a resource keeps the map well formed, whoever gets the URI. *)
LEMMA AddNew ==
  ASSUME NEW m, MapOK(world, m), NEW r \in Resource(world), NEW draft \in Draft, NEW external, NEW q,
         q = Add(NewResource(m, r, draft, external), r)
  PROVE  /\ MapOK(world, q) /\ q.owner = m.owner
         /\ r \in DOMAIN q.reg /\ DOMAIN m.reg \subseteq DOMAIN q.reg
         /\ r.uri \in DOMAIN q.byURI /\ DOMAIN m.byURI \subseteq DOMAIN q.byURI
<1> DEFINE new == NewResource(m, r, draft, external)
<1>1. /\ new = [byURI |-> m.byURI, order |-> m.order, rootURI |-> m.rootURI, owner |-> m.owner,
                reg |-> Put(m.reg, r, Fresh(draft, external)), failed |-> m.failed,
                collided |-> m.collided]
  <2>1. Shaped(m)
    BY DEF MapOK
  <2>2. QED
    BY <2>1 DEF Shaped, NewResource, Fresh
<1>2. r.uri \in Path /\ UrisOK(m) /\ Listed(m)
  BY DEF Resource, MapOK
<1>3. DOMAIN new.reg = DOMAIN m.reg \cup {r}
  BY <1>1 DEF Put
<1> HIDE DEF new
<1>4. CASE r.uri \notin DOMAIN new.byURI
  <2>1. q = [new EXCEPT !.byURI = Put(@, r.uri, r), !.order = Append(@, r.uri)]
    BY <1>4 DEF Add, new
  <2>2. /\ q.byURI = Put(m.byURI, r.uri, r) /\ q.order = Append(m.order, r.uri)
        /\ q.owner = m.owner /\ q.reg = Put(m.reg, r, Fresh(draft, external)) /\ Shaped(q)
    BY <1>1, <2>1 DEF Shaped
  <2>3. /\ DOMAIN q.byURI = DOMAIN m.byURI \cup {r.uri} /\ q.byURI[r.uri] = r
        /\ \A u \in DOMAIN m.byURI : q.byURI[u] = m.byURI[u]
    BY <1>1, <1>4, <2>2 DEF Put
  <2>4. Listed(q)
    BY <1>1, <1>2, <1>4, <2>2, <2>3, Appended
  <2>5. UrisOK(q)
    BY <1>1, <1>2, <1>3, <2>2, <2>3 DEF UrisOK
  <2>6. QED
    BY <2>2, <2>3, <2>4, <2>5, Registered
<1>5. CASE r.uri \in DOMAIN new.byURI
  <2>1. /\ q.order = m.order /\ q.owner = m.owner /\ q.reg = Put(m.reg, r, Fresh(draft, external))
        /\ DOMAIN q.byURI = DOMAIN m.byURI /\ Shaped(q)
        /\ q.byURI[r.uri] \in {r, m.byURI[r.uri]}
        /\ \A u \in DOMAIN m.byURI : u # r.uri => q.byURI[u] = m.byURI[u]
    <3> DEFINE holder == new.byURI[r.uri]
    <3>1. CASE S(holder.root).content = S(r.root).content
      <4>1. q = [new EXCEPT !.byURI[r.uri] = r]
        BY <1>5, <3>1 DEF Add, new
      <4>2. q.byURI = [m.byURI EXCEPT ![r.uri] = r] /\ r.uri \in DOMAIN m.byURI
        BY <1>1, <1>5, <4>1
      <4>3. /\ q.order = m.order /\ q.owner = m.owner /\ q.reg = Put(m.reg, r, Fresh(draft, external))
            /\ Shaped(q)
        BY <1>1, <4>1 DEF Shaped
      <4>4. QED
        BY <4>2, <4>3
    <3>2. CASE S(holder.root).content # S(r.root).content
      <4>1. q = [new EXCEPT !.byURI[r.uri] = IF world.policy = "last" THEN r ELSE @,
                            !.failed = (world.policy = "error"), !.collided = TRUE]
        BY <1>5, <3>2 DEF Add, new
      <4>2. /\ q.byURI = [m.byURI EXCEPT ![r.uri] = IF world.policy = "last" THEN r ELSE m.byURI[r.uri]]
            /\ r.uri \in DOMAIN m.byURI
        BY <1>1, <1>5, <4>1
      <4>3. /\ q.order = m.order /\ q.owner = m.owner /\ q.reg = Put(m.reg, r, Fresh(draft, external))
            /\ Shaped(q)
        BY <1>1, <4>1 DEF Shaped
      <4>4. QED
        BY <4>2, <4>3
    <3>3. QED
      BY <3>1, <3>2
  <2>2. Listed(q)
    BY <1>2, <2>1 DEF Listed
  <2>3. UrisOK(q)
    BY <1>1, <1>2, <1>3, <1>5, <2>1 DEF UrisOK
  <2>4. QED
    BY <1>1, <1>5, <2>1, <2>2, <2>3, Registered
<1>6. QED
  BY <1>4, <1>5

(* Opening a resource keeps the map well formed. *)
LEMMA OpenedKeeps ==
  ASSUME WorldOK(world), NEW m, MapOK(world, m), NEW n \in Node(world), NEW current \in DOMAIN m.reg,
         NEW draft \in Draft, NEW q, q = Opened(m, n, current, draft)
  PROVE  /\ MapOK(world, q) /\ q.owner = m.owner
         /\ DOMAIN m.reg \subseteq DOMAIN q.reg /\ DOMAIN m.byURI \subseteq DOMAIN q.byURI
         /\ Opens(S(n), draft) => [uri |-> Named(S(n), current.uri), root |-> n] \in DOMAIN q.reg
<1> DEFINE r == [uri |-> Named(S(n), current.uri), root |-> n]
<1>1. current.uri \in Path
  BY DEF MapOK, ResourcesOK, Resource
<1>2. r.uri \in Path /\ r \in Resource(world) /\ r.root = n
  BY <1>1, NamedPath DEF Resource
<1>3. CASE r.uri \in DOMAIN m.byURI /\ m.byURI[r.uri].root = n
  <2>1. q = m
    BY <1>3 DEF Opened
  <2>2. m.byURI[r.uri] \in DOMAIN m.reg /\ m.byURI[r.uri].uri = r.uri
    BY <1>3 DEF MapOK, UrisOK
  <2>3. m.byURI[r.uri] \in Resource(world)
    BY <2>2 DEF MapOK, ResourcesOK
  <2>4. m.byURI[r.uri] = r
    <3> DEFINE x == m.byURI[r.uri]
    <3>1. x \in [uri : Path, root : Node(world)] /\ x.uri = r.uri /\ x.root = r.root
      BY <1>2, <1>3, <2>2, <2>3 DEF Resource
    <3> HIDE DEF x
    <3>2. x = [uri |-> x.uri, root |-> x.root]
      BY <3>1
    <3>3. x = r
      BY <3>1, <3>2
    <3>4. QED
      BY <3>3 DEF x
  <2>5. QED
    BY <2>1, <2>2, <2>4
<1>4. CASE ~Opens(S(n), draft)
  BY <1>4 DEF Opened
<1>5. CASE Opens(S(n), draft) /\ ~(r.uri \in DOMAIN m.byURI /\ m.byURI[r.uri].root = n)
  <2>1. q = Add(NewResource(m, r, draft, m.reg[current].external), r)
    BY <1>5 DEF Opened
  <2> HIDE DEF r
  <2>2. /\ MapOK(world, q) /\ q.owner = m.owner /\ r \in DOMAIN q.reg
        /\ DOMAIN m.reg \subseteq DOMAIN q.reg /\ DOMAIN m.byURI \subseteq DOMAIN q.byURI
    BY <1>2, <2>1, AddNew
  <2>3. QED
    BY <2>2 DEF r
<1>6. QED
  BY <1>3, <1>4, <1>5

(* Recording a node and its anchors keeps the map well formed. *)
LEMMA AnchoredKeeps ==
  ASSUME WorldOK(world), NEW m, MapOK(world, m), NEW n \in Node(world), n \notin DOMAIN m.owner,
         NEW current \in DOMAIN m.reg, NEW target \in DOMAIN m.reg, NEW draft \in Draft,
         target # current => (draft = "legacy" => S(n).plain = None),
         NEW q, q = Anchored(m, n, current, target, draft)
  PROVE  /\ MapOK(world, q) /\ q.failed = m.failed
         /\ DOMAIN q.owner = DOMAIN m.owner \cup {n}
         /\ DOMAIN q.reg = DOMAIN m.reg /\ DOMAIN q.byURI = DOMAIN m.byURI
<1> DEFINE plain == Entry(IF draft = "legacy" THEN S(n).plain ELSE None, n)
           anchor == Entry(S(n).anchor, n)
           dynamic == Entry(S(n).dyn, n)
           data == m.reg[current]
           first == [data EXCEPT !.anchors = Over(plain, data.anchors)]
           reg == [m.reg EXCEPT ![current] = first]
           flag == target.root = n /\ S(n).recursive
           own == [x \in {n} |-> target]
           last == Scoped(reg[target], anchor, dynamic, flag)
<1>1. /\ \A x \in DOMAIN plain : plain[x] = n
      /\ \A x \in DOMAIN anchor : anchor[x] = n
      /\ \A x \in DOMAIN dynamic : dynamic[x] = n
      /\ target # current => DOMAIN plain = {}
  BY EntryFacts
<1>2. q = [m EXCEPT !.owner = Over(m.owner, own), !.reg = [reg EXCEPT ![target] = last]]
  BY DEF Anchored
<1>3. Shaped(m) /\ UrisOK(m) /\ Listed(m) /\ OwnersOK(world, m) /\ ResourcesOK(world, m)
  BY DEF MapOK
<1> HIDE DEF plain, anchor, dynamic, flag, reg, last
<1>4. q = [byURI |-> m.byURI, order |-> m.order, rootURI |-> m.rootURI, owner |-> Over(m.owner, own),
           reg |-> [reg EXCEPT ![target] = last], failed |-> m.failed, collided |-> m.collided]
  BY <1>2, <1>3 DEF Shaped
<1>5. /\ q.byURI = m.byURI /\ q.order = m.order /\ q.failed = m.failed /\ q.owner = Over(m.owner, own)
      /\ q.reg = [reg EXCEPT ![target] = last] /\ Shaped(q)
  BY <1>4 DEF Shaped
<1>6. DOMAIN reg = DOMAIN m.reg /\ DOMAIN q.reg = DOMAIN m.reg
  BY <1>5 DEF reg
<1>7. /\ DOMAIN q.owner = DOMAIN m.owner \cup {n} /\ q.owner[n] = target
      /\ \A x \in DOMAIN m.owner : q.owner[x] = m.owner[x]
  BY <1>5 DEF own, Over
(* The data of a resource once a plain anchor is named. *)
<1>8. ASSUME NEW x \in DOMAIN m.reg
      PROVE  /\ reg[x] = [anchors |-> reg[x].anchors, dynamic |-> reg[x].dynamic,
                          recursive |-> reg[x].recursive, draft |-> reg[x].draft,
                          external |-> reg[x].external]
             /\ reg[x].draft = m.reg[x].draft /\ reg[x].dynamic = m.reg[x].dynamic
             /\ \A name \in DOMAIN reg[x].anchors :
                   \/ x = target /\ reg[x].anchors[name] = n
                   \/ name \in DOMAIN m.reg[x].anchors /\ reg[x].anchors[name] = m.reg[x].anchors[name]
  <2>1. m.reg[x] = [anchors |-> m.reg[x].anchors, dynamic |-> m.reg[x].dynamic,
                    recursive |-> m.reg[x].recursive, draft |-> m.reg[x].draft,
                    external |-> m.reg[x].external]
    BY <1>3 DEF ResourcesOK, DataOK
  <2>2. CASE x # current
    <3>1. reg[x] = m.reg[x]
      BY <2>2 DEF reg
    <3>2. QED
      BY <2>1, <3>1
  <2>3. CASE x = current
    <3>1. reg[x] = [data EXCEPT !.anchors = Over(plain, data.anchors)] /\ data = m.reg[x]
      BY <2>3 DEF reg
    <3> HIDE DEF data
    <3>2. reg[x] = [anchors |-> Over(plain, data.anchors), dynamic |-> data.dynamic,
                    recursive |-> data.recursive, draft |-> data.draft, external |-> data.external]
      BY <2>1, <3>1
    <3>3. \A name \in DOMAIN Over(plain, data.anchors) :
             \/ x = target /\ Over(plain, data.anchors)[name] = n
             \/ name \in DOMAIN data.anchors /\ Over(plain, data.anchors)[name] = data.anchors[name]
      BY <1>1, <2>3 DEF Over
    <3>4. /\ reg[x].anchors = Over(plain, data.anchors) /\ reg[x].dynamic = data.dynamic
          /\ reg[x].draft = data.draft
          /\ reg[x] = [anchors |-> reg[x].anchors, dynamic |-> reg[x].dynamic,
                       recursive |-> reg[x].recursive, draft |-> reg[x].draft, external |-> reg[x].external]
      BY <3>2
    <3>5. QED
      BY <3>1, <3>3, <3>4
  <2>4. QED
    BY <2>2, <2>3
<1>9. ASSUME NEW x \in DOMAIN q.reg
      PROVE  x \in Resource(world) /\ x.uri \in DOMAIN q.byURI /\ DataOK(world, q, x, q.reg[x])
  <2>1. x \in DOMAIN m.reg /\ x \in Resource(world) /\ x.uri \in DOMAIN m.byURI
        /\ DataOK(world, m, x, m.reg[x])
    BY <1>3, <1>6 DEF ResourcesOK
  <2>2. /\ \A name \in DOMAIN reg[x].anchors :
              reg[x].anchors[name] \in DOMAIN q.owner /\ q.owner[reg[x].anchors[name]] = x
        /\ \A name \in DOMAIN reg[x].dynamic : reg[x].dynamic[name] \in Node(world)
        /\ reg[x].draft \in Draft
    <3>1. /\ reg[x].draft = m.reg[x].draft /\ reg[x].dynamic = m.reg[x].dynamic
          /\ \A name \in DOMAIN reg[x].anchors :
                \/ x = target /\ reg[x].anchors[name] = n
                \/ name \in DOMAIN m.reg[x].anchors /\ reg[x].anchors[name] = m.reg[x].anchors[name]
      BY <1>8, <2>1
    <3>2. /\ m.reg[x].draft \in Draft
          /\ \A name \in DOMAIN m.reg[x].anchors :
                m.reg[x].anchors[name] \in DOMAIN m.owner /\ m.owner[m.reg[x].anchors[name]] = x
          /\ \A name \in DOMAIN m.reg[x].dynamic : m.reg[x].dynamic[name] \in Node(world)
      BY <2>1 DEF DataOK
    <3> DEFINE a == reg[x].anchors
               b == m.reg[x].anchors
    <3>3. \A name \in DOMAIN a : a[name] \in DOMAIN q.owner /\ q.owner[a[name]] = x
      <4>1. /\ \A name \in DOMAIN a : (x = target /\ a[name] = n) \/ (name \in DOMAIN b /\ a[name] = b[name])
            /\ \A name \in DOMAIN b : b[name] \in DOMAIN m.owner /\ m.owner[b[name]] = x
        BY <3>1, <3>2
      <4> HIDE DEF a, b
      <4>2. QED
        BY <1>7, <4>1
    <3>4. QED
      BY <3>1, <3>2, <3>3
  <2>3. CASE x # target
    <3>1. q.reg[x] = reg[x]
      BY <1>5, <2>3
    <3>2. DataOK(world, q, x, reg[x])
      BY <1>8, <2>1, <2>2 DEF DataOK
    <3>3. QED
      BY <1>5, <2>1, <3>1, <3>2
  <2>4. CASE x = target
    <3>1. q.reg[x] = last
      BY <1>5, <1>6, <2>1, <2>4
    <3>2. last = Scoped(reg[x], anchor, dynamic, flag)
      BY <2>4 DEF last
    <3>3. reg[x] = [anchors |-> reg[x].anchors, dynamic |-> reg[x].dynamic,
                    recursive |-> reg[x].recursive, draft |-> reg[x].draft, external |-> reg[x].external]
      BY <1>8, <2>1
    <3>4. /\ last = [anchors |-> last.anchors, dynamic |-> last.dynamic, recursive |-> last.recursive,
                     draft |-> last.draft, external |-> last.external]
          /\ last.draft = reg[x].draft
          /\ \A name \in DOMAIN last.anchors :
                last.anchors[name] = n \/ (name \in DOMAIN reg[x].anchors
                                              /\ last.anchors[name] = reg[x].anchors[name])
          /\ \A name \in DOMAIN last.dynamic :
                last.dynamic[name] = n \/ (name \in DOMAIN reg[x].dynamic
                                              /\ last.dynamic[name] = reg[x].dynamic[name])
      <4> DEFINE old == reg[x]
      <4>1. /\ last = Scoped(old, anchor, dynamic, flag)
            /\ old = [anchors |-> old.anchors, dynamic |-> old.dynamic, recursive |-> old.recursive,
                      draft |-> old.draft, external |-> old.external]
        BY <3>2, <3>3
      <4> HIDE DEF old
      <4>2. /\ last = [anchors |-> last.anchors, dynamic |-> last.dynamic, recursive |-> last.recursive,
                       draft |-> last.draft, external |-> last.external]
            /\ last.draft = old.draft
            /\ \A name \in DOMAIN last.anchors :
                  last.anchors[name] = n
                     \/ (name \in DOMAIN old.anchors /\ last.anchors[name] = old.anchors[name])
            /\ \A name \in DOMAIN last.dynamic :
                  last.dynamic[name] = n
                     \/ (name \in DOMAIN old.dynamic /\ last.dynamic[name] = old.dynamic[name])
        <5>1. last = [anchors |-> Over(Over(anchor, old.anchors), dynamic),
                      dynamic |-> Over(dynamic, old.dynamic), recursive |-> old.recursive \/ flag,
                      draft |-> old.draft, external |-> old.external]
          BY <4>1 DEF Scoped
        <5>2. /\ last.anchors = Over(Over(anchor, old.anchors), dynamic)
              /\ last.dynamic = Over(dynamic, old.dynamic) /\ last.draft = old.draft
              /\ last = [anchors |-> last.anchors, dynamic |-> last.dynamic, recursive |-> last.recursive,
                         draft |-> last.draft, external |-> last.external]
          BY <5>1
        <5> DEFINE was == old.anchors
                   had == old.dynamic
        <5>3. \A name \in DOMAIN Over(Over(anchor, was), dynamic) :
                 \/ Over(Over(anchor, was), dynamic)[name] = n
                 \/ name \in DOMAIN was /\ Over(Over(anchor, was), dynamic)[name] = was[name]
          <6> HIDE DEF was
          <6>1. QED
            BY <1>1 DEF Over
        <5>4. \A name \in DOMAIN Over(dynamic, had) :
                 \/ Over(dynamic, had)[name] = n
                 \/ name \in DOMAIN had /\ Over(dynamic, had)[name] = had[name]
          <6> HIDE DEF had
          <6>1. QED
            BY <1>1 DEF Over
        <5>5. QED
          BY <5>2, <5>3, <5>4, Zenon
      <4>3. QED
        BY <4>2 DEF old
    <3>5. n \in DOMAIN q.owner /\ q.owner[n] = x
      BY <1>7, <2>4
    <3>6. DataOK(world, q, x, last)
      BY <2>2, <3>4, <3>5 DEF DataOK
    <3>7. QED
      BY <1>5, <2>1, <3>1, <3>6
  <2>5. QED
    BY <2>3, <2>4
<1>10. UrisOK(q) /\ Listed(q) /\ OwnersOK(world, q)
  BY <1>3, <1>5, <1>6, <1>7 DEF UrisOK, Listed, OwnersOK
<1>11. QED
  BY <1>5, <1>6, <1>7, <1>9, <1>10 DEF MapOK, ResourcesOK

(* Walking a node makes it known and leaves the map well formed. *)
LEMMA NodeWalked ==
  ASSUME WorldOK(world), NEW m, MapOK(world, m), NEW n \in Node(world), n \notin DOMAIN m.owner,
         NEW entry \in DOMAIN m.reg, S(n).parent = None \/ S(n).parent \in DOMAIN m.owner,
         NEW q, q = WalkNode(m, n, entry)
  PROVE  /\ MapOK(world, q) /\ Grown(world, m, q, S(n).doc)
         /\ DOMAIN m.owner \subseteq DOMAIN q.owner /\ DOMAIN q.owner \subseteq DOMAIN m.owner \cup {n}
         /\ ~q.failed => n \in DOMAIN q.owner
<1> DEFINE current == IF S(n).parent = None THEN entry ELSE m.owner[S(n).parent]
           draft == Drafted(S(n), m.reg[current].draft)
           target == IF Opens(S(n), draft) THEN [uri |-> Named(S(n), current.uri), root |-> n] ELSE current
           o == Opened(m, n, current, draft)
<1>1. current \in DOMAIN m.reg
  BY DEF MapOK, OwnersOK
<1>2. q = IF o.failed THEN o ELSE Anchored(o, n, current, target, draft)
  BY DEF WalkNode, Unless
<1> HIDE DEF current
<1>3. draft \in Draft
  BY <1>1, DraftedIn DEF MapOK, ResourcesOK, DataOK
<1> HIDE DEF draft
<1>4. /\ MapOK(world, o) /\ o.owner = m.owner
      /\ DOMAIN m.reg \subseteq DOMAIN o.reg /\ DOMAIN m.byURI \subseteq DOMAIN o.byURI
      /\ Opens(S(n), draft) => [uri |-> Named(S(n), current.uri), root |-> n] \in DOMAIN o.reg
  BY <1>1, <1>3, OpenedKeeps
<1>5. target \in DOMAIN o.reg /\ current \in DOMAIN o.reg
  BY <1>1, <1>4
<1>6. target # current => (draft = "legacy" => S(n).plain = None)
  BY DEF Opens
<1> HIDE DEF o, target
<1>7. CASE o.failed
  BY <1>2, <1>4, <1>7 DEF Grown
<1>8. CASE ~o.failed
  <2>1. q = Anchored(o, n, current, target, draft) /\ n \notin DOMAIN o.owner
    BY <1>2, <1>4, <1>8
  <2>2. /\ MapOK(world, q) /\ DOMAIN q.owner = DOMAIN o.owner \cup {n}
        /\ DOMAIN q.reg = DOMAIN o.reg /\ DOMAIN q.byURI = DOMAIN o.byURI
    BY <1>3, <1>4, <1>5, <1>6, <2>1, AnchoredKeeps
  <2>3. QED
    BY <1>4, <2>2 DEF Grown, S
<1>9. QED
  BY <1>7, <1>8

\* Node n can be walked: its parent was, and it was not.
Walkable(w, m, n, entry) ==
    /\ MapOK(w, m) /\ n \notin DOMAIN m.owner /\ entry \in DOMAIN m.reg
    /\ w.schema[n].parent = None \/ w.schema[n].parent \in DOMAIN m.owner

\* The maps of a walk, from m to q, after each of the nodes.
Through(w, nodes, entry, m, q, f) ==
    /\ f[0] = m /\ q = f[Len(nodes)]
    /\ \A i \in 1 .. Len(nodes) :
          \/ f[i] = f[i - 1]
          \/ Walkable(w, f[i - 1], nodes[i], entry) /\ f[i] = WalkNode(f[i - 1], nodes[i], entry)

(* A walk goes from node to node, each with a parent that is known, and keeps the
   map well formed, whether or not a collision ends it; only nodes of its document
   gain an owner. *)
LEMMA WalkSteps ==
  ASSUME WorldOK(world), NEW m, MapOK(world, m), NEW d \in DOMAIN world.docs, Unwalked(world, m, d),
         NEW entry \in DOMAIN m.reg, NEW q, q = Walk(m, d, entry)
  PROVE  /\ MapOK(world, q) /\ Grown(world, m, q, d)
         /\ \E f : Through(world, world.docs[d], entry, m, q, f)
<1> DEFINE nodes == world.docs[d]
           L == Len(nodes)
           step(i, o) == IF S(nodes[i]).walked /\ ~o.failed THEN WalkNode(o, nodes[i], entry) ELSE o
           Def(f) == f = [i \in 0 .. L |-> IF i = 0 THEN m
                                           ELSE IF S(nodes[i]).walked
                                                THEN IF f[i - 1].failed THEN f[i - 1]
                                                     ELSE WalkNode(f[i - 1], nodes[i], entry)
                                                ELSE f[i - 1]]
           Upto(k, f) == /\ f[0] = m
                         /\ \A i \in 1 .. k : f[i] = step(i, f[i - 1])
           E == {k \in Nat : \E f : Upto(k, f)}
<1>1. /\ nodes \in Seq(Node(world)) /\ L \in Nat /\ DOMAIN nodes = 1 .. L
      /\ \A i \in 1 .. L : nodes[i] \in Node(world)
  BY Roots
<1>2. \A i \in 1 .. L :
         /\ S(nodes[i]).doc = d
         /\ S(nodes[i]).parent # None => \E j \in 1 .. i - 1 : nodes[j] = S(nodes[i]).parent
         /\ \A j \in 1 .. i - 1 : nodes[j] # nodes[i]
  <2>1. DocumentOK(world, d)
    BY DEF WorldOK
  <2>2. QED
    BY <1>1, <2>1 DEF DocumentOK, S
<1>3. \E f : Upto(L, f)
  <2>1. 0 \in E
    <3>1. Upto(0, [i \in {0} |-> m])
      OBVIOUS
    <3>2. QED
      BY <3>1
  <2>2. ASSUME NEW k \in Nat, k \in E PROVE k + 1 \in E
    <3>1. PICK f : Upto(k, f)
      BY <2>2
    <3> DEFINE g == [i \in 0 .. k + 1 |-> IF i = k + 1 THEN step(k + 1, f[k]) ELSE f[i]]
    <3>2. g[0] = m
      BY <3>1
    <3>3. ASSUME NEW i \in 1 .. k + 1 PROVE g[i] = step(i, g[i - 1])
      <4>1. CASE i = k + 1
        <5>1. g[i] = step(k + 1, f[k]) /\ i - 1 = k /\ k \in 0 .. k + 1 /\ k # k + 1
          BY <4>1
        <5>2. g[k] = f[k]
          BY <5>1
        <5> HIDE DEF g, step
        <5>3. QED
          BY <4>1, <5>1, <5>2
      <4>2. CASE i # k + 1
        <5>1. i \in 1 .. k /\ i \in 0 .. k + 1 /\ i - 1 \in 0 .. k + 1 /\ i - 1 # k + 1
          BY <3>3, <4>2
        <5>2. g[i] = f[i] /\ g[i - 1] = f[i - 1]
          BY <4>2, <5>1
        <5> HIDE DEF g, step
        <5>3. QED
          BY <3>1, <5>1, <5>2
      <4>3. QED
        BY <4>1, <4>2
    <3> HIDE DEF g, step
    <3>4. QED
      BY <3>2, <3>3
  <2> HIDE DEF E
  <2>3. \A k \in Nat : k \in E
    BY <2>1, <2>2, SetInduction
  <2>4. QED
    BY <1>1, <2>3 DEF E
<1>4. \E f : Def(f)
  <2>1. PICK f : Upto(L, f)
    BY <1>3
  <2> DEFINE g == [i \in 0 .. L |-> f[i]]
  <2>2. g = [i \in 0 .. L |-> IF i = 0 THEN m
                              ELSE IF S(nodes[i]).walked
                                   THEN IF g[i - 1].failed THEN g[i - 1]
                                        ELSE WalkNode(g[i - 1], nodes[i], entry)
                                   ELSE g[i - 1]]
    <3> SUFFICES ASSUME NEW i \in 0 .. L
                 PROVE f[i] = IF i = 0 THEN m
                              ELSE IF S(nodes[i]).walked
                                   THEN IF g[i - 1].failed THEN g[i - 1]
                                        ELSE WalkNode(g[i - 1], nodes[i], entry)
                                   ELSE g[i - 1]
      OBVIOUS
    <3>1. CASE i = 0
      BY <2>1, <3>1
    <3>2. CASE i # 0
      <4>1. i \in 1 .. L /\ i - 1 \in 0 .. L
        BY <1>1, <3>2
      <4>2. g[i - 1] = f[i - 1]
        BY <4>1
      <4>3. f[i] = step(i, f[i - 1])
        BY <2>1, <4>1
      <4> HIDE DEF g, L
      <4>4. QED
        BY <3>2, <4>2, <4>3
    <3>3. QED
      BY <3>1, <3>2
  <2>3. QED
    BY <2>2
<1> DEFINE after == CHOOSE f : Def(f)
<1>5. Def(after)
  BY <1>4
<1>6. q = after[L]
  BY DEF Walk, Unless
<1>7. after[0] = m /\ \A i \in 1 .. L : after[i] = step(i, after[i - 1])
  <2>1. 0 \in 0 .. L /\ \A i \in 1 .. L : i \in 0 .. L /\ i # 0
    BY <1>1
  <2> HIDE DEF L, after, nodes
  <2>2. QED
    BY <1>5, <2>1
<1> HIDE DEF after, Def, E
<1> DEFINE Went(i) == \/ after[i] = after[i - 1]
                      \/ /\ Walkable(world, after[i - 1], nodes[i], entry)
                         /\ after[i] = WalkNode(after[i - 1], nodes[i], entry)
           Good(i) == /\ MapOK(world, after[i]) /\ Grown(world, m, after[i], d)
                      /\ i # 0 => Went(i)
                      /\ \A j \in i + 1 .. L : nodes[j] \notin DOMAIN after[i].owner
                      /\ ~after[i].failed =>
                            \A j \in 1 .. i : S(nodes[j]).walked => nodes[j] \in DOMAIN after[i].owner
           I == {i \in Nat : i <= L => Good(i)}
<1>8. 0 \in I
  <2>1. Grown(world, m, m, d)
    BY DEF Grown
  <2>2. \A j \in 1 .. L : nodes[j] \notin DOMAIN m.owner
    BY <1>1, <1>2 DEF Unwalked, S
  <2>3. QED
    BY <1>7, <2>1, <2>2
<1>9. ASSUME NEW i \in Nat, i \in I PROVE i + 1 \in I
  <2> SUFFICES ASSUME i + 1 <= L PROVE Good(i + 1)
    OBVIOUS
  <2>1. PICK k \in 1 .. L : k = i + 1 /\ k - 1 = i
    BY <1>1
  <2>2. Good(i)
    BY <1>1, <1>9
  <2> DEFINE n == nodes[k]
             o == after[i]
  <2>3. after[k] = step(k, o)
    BY <1>7, <2>1
  <2> HIDE DEF I
  <2>4. n \in Node(world) /\ S(n).doc = d
    BY <1>1, <1>2
  <2>5. CASE ~(S(n).walked /\ ~o.failed)
    <3>1. after[k] = o
      BY <2>3, <2>5
    <3>2. \A j \in k + 1 .. L : j \in i + 1 .. L
      BY <2>1
    <3>3. ~o.failed => \A j \in 1 .. k : S(nodes[j]).walked => j \in 1 .. i
      BY <2>1, <2>5
    <3>4. Went(k)
      BY <2>1, <3>1
    <3> HIDE DEF Went
    <3>5. QED
      BY <2>1, <2>2, <3>1, <3>2, <3>3, <3>4
  <2>6. CASE S(n).walked /\ ~o.failed
    <3>1. after[k] = WalkNode(o, n, entry)
      BY <2>3, <2>6
    <3>2. n \notin DOMAIN o.owner /\ entry \in DOMAIN o.reg
      BY <2>1, <2>2 DEF Grown
    <3>3. S(n).parent = None \/ S(n).parent \in DOMAIN o.owner
      <4> SUFFICES ASSUME S(n).parent # None PROVE S(n).parent \in DOMAIN o.owner
        OBVIOUS
      <4>1. PICK j \in 1 .. k - 1 : nodes[j] = S(n).parent
        BY <1>2
      <4>2. S(nodes[j]).walked
        BY <2>4, <2>6, <4>1, ParentFields
      <4>3. j \in 1 .. i
        BY <2>1
      <4>4. QED
        BY <2>2, <2>6, <4>1, <4>2, <4>3
    <3> DEFINE p == after[k]
    <3>4. /\ MapOK(world, p) /\ Grown(world, o, p, d)
          /\ DOMAIN o.owner \subseteq DOMAIN p.owner /\ DOMAIN p.owner \subseteq DOMAIN o.owner \cup {n}
          /\ ~p.failed => n \in DOMAIN p.owner
      <4>1. MapOK(world, o) /\ p = WalkNode(o, n, entry)
        BY <2>2, <3>1
      <4> HIDE DEF n, o, p
      <4>2. /\ MapOK(world, p) /\ Grown(world, o, p, S(n).doc)
            /\ DOMAIN o.owner \subseteq DOMAIN p.owner /\ DOMAIN p.owner \subseteq DOMAIN o.owner \cup {n}
            /\ ~p.failed => n \in DOMAIN p.owner
        BY <2>4, <3>2, <3>3, <4>1, NodeWalked
      <4>3. QED
        BY <2>4, <4>2
    <3>5. Grown(world, m, p, d)
      BY <2>2, <3>4 DEF Grown
    <3>6. \A j \in k + 1 .. L : nodes[j] \notin DOMAIN p.owner
      <4> SUFFICES ASSUME NEW j \in k + 1 .. L PROVE nodes[j] \notin DOMAIN p.owner
        OBVIOUS
      <4>1. j \in i + 1 .. L /\ j \in 1 .. L /\ k \in 1 .. j - 1
        BY <2>1
      <4>2. nodes[j] \notin DOMAIN o.owner /\ nodes[j] # n
        BY <1>2, <2>2, <4>1
      <4>3. QED
        BY <3>4, <4>2
    <3>7. ~p.failed => \A j \in 1 .. k : S(nodes[j]).walked => nodes[j] \in DOMAIN p.owner
      <4> SUFFICES ASSUME ~p.failed, NEW j \in 1 .. k, S(nodes[j]).walked PROVE nodes[j] \in DOMAIN p.owner
        OBVIOUS
      <4>1. CASE j = k
        BY <3>4, <4>1
      <4>2. CASE j # k
        <5>1. j \in 1 .. i
          BY <2>1, <4>2
        <5>2. QED
          BY <2>2, <2>6, <3>4, <5>1
      <4>3. QED
        BY <4>1, <4>2
    <3>8. Went(k)
      BY <2>1, <2>2, <3>1, <3>2, <3>3 DEF Walkable, S
    <3> HIDE DEF Went
    <3>9. QED
      BY <2>1, <3>4, <3>5, <3>6, <3>7, <3>8
  <2>7. QED
    BY <2>5, <2>6
<1> HIDE DEF I
<1>10. \A i \in Nat : i \in I
  BY <1>8, <1>9, SetInduction
<1>11. \A i \in 0 .. L : Good(i)
  BY <1>1, <1>10 DEF I
<1>12. MapOK(world, q) /\ Grown(world, m, q, d)
  BY <1>1, <1>6, <1>11
<1>13. \A i \in 1 .. L : Went(i)
  BY <1>1, <1>11
<1> HIDE DEF Good
<1>14. Through(world, nodes, entry, m, q, after)
  BY <1>6, <1>7, <1>13 DEF Through
<1>15. QED
  BY <1>12, <1>14

(* A walk keeps the map well formed. *)
LEMMA WalkKeeps ==
  ASSUME WorldOK(world), NEW m, MapOK(world, m), NEW d \in DOMAIN world.docs, Unwalked(world, m, d),
         NEW entry \in DOMAIN m.reg, NEW q, q = Walk(m, d, entry)
  PROVE  MapOK(world, q) /\ Grown(world, m, q, d)
BY WalkSteps

(* The walk of a document that the caller registered or the loader returned. *)
LEMMA DocumentWalked ==
  ASSUME WorldOK(world), NEW m, MapOK(world, m), NEW d \in DOMAIN world.docs, Unwalked(world, m, d),
         NEW uri \in Path, NEW draft \in Draft, NEW q, q = WalkDocument(m, d, uri, draft)
  PROVE  MapOK(world, q) /\ Grown(world, m, q, d) /\ uri \in DOMAIN q.byURI
<1> DEFINE r == [uri |-> uri, root |-> world.docs[d][1]]
           yes == TRUE
           o == Add(NewResource(m, r, draft, yes), r)
<1>1. r \in Resource(world) /\ r.uri = uri
  BY Roots DEF Resource
<1>2. q = IF o.failed THEN o ELSE Walk(o, d, r)
  BY DEF WalkDocument, Unless
<1> HIDE DEF r, yes
<1>3. /\ MapOK(world, o) /\ o.owner = m.owner
      /\ r \in DOMAIN o.reg /\ DOMAIN m.reg \subseteq DOMAIN o.reg
      /\ uri \in DOMAIN o.byURI /\ DOMAIN m.byURI \subseteq DOMAIN o.byURI
  BY <1>1, AddNew
<1> HIDE DEF o
<1>4. Unwalked(world, o, d) /\ Grown(world, m, o, d)
  BY <1>3 DEF Unwalked, Grown
<1>5. CASE o.failed
  BY <1>2, <1>3, <1>4, <1>5
<1>6. CASE ~o.failed
  <2>1. q = Walk(o, d, r)
    BY <1>2, <1>6
  <2>2. MapOK(world, q) /\ Grown(world, o, q, d)
    BY <1>3, <1>4, <2>1, WalkKeeps
  <2>3. QED
    BY <1>3, <1>4, <2>2 DEF Grown
<1>7. QED
  BY <1>5, <1>6

(* The walk of the schema that is compiled. *)
LEMMA ResourceWalked ==
  ASSUME WorldOK(world), NEW m, MapOK(world, m), Unwalked(world, m, world.doc),
         NEW uri \in Path, NEW draft \in Draft, NEW q, q = WalkResource(m, uri, draft)
  PROVE  MapOK(world, q) /\ Grown(world, m, q, world.doc)
<1> DEFINE r == [uri |-> uri, root |-> Root]
           no == FALSE
           new == NewResource(m, r, draft, no)
           o == [new EXCEPT !.byURI = Put(@, uri, r), !.rootURI = uri,
                            !.order = IF uri \in DOMAIN m.byURI THEN @ ELSE Append(@, uri)]
<1>1. r \in Resource(world) /\ r.uri = uri /\ world.doc \in DOMAIN world.docs
  BY RootTyped DEF Resource, WorldOK
<1>2. q = Walk(o, world.doc, r)
  BY DEF WalkResource
<1>3. Shaped(m) /\ UrisOK(m) /\ Listed(m)
  BY DEF MapOK
<1> HIDE DEF r, no
<1>4. new = [byURI |-> m.byURI, order |-> m.order, rootURI |-> m.rootURI, owner |-> m.owner,
             reg |-> Put(m.reg, r, Fresh(draft, no)), failed |-> m.failed, collided |-> m.collided]
  BY <1>3 DEF Shaped, NewResource, Fresh
<1> HIDE DEF new
<1>5. /\ o.byURI = Put(m.byURI, uri, r) /\ o.owner = m.owner
      /\ o.order = (IF uri \in DOMAIN m.byURI THEN m.order ELSE Append(m.order, uri))
      /\ o.reg = Put(m.reg, r, Fresh(draft, no)) /\ Shaped(o)
  <2> DEFINE list == IF uri \in DOMAIN m.byURI THEN m.order ELSE Append(m.order, uri)
             put == Put(m.byURI, uri, r)
  <2>1. o = [new EXCEPT !.byURI = put, !.rootURI = uri, !.order = list]
    BY <1>4
  <2> HIDE DEF o, list, put
  <2>2. o = [byURI |-> put, order |-> list, rootURI |-> uri, owner |-> m.owner,
             reg |-> Put(m.reg, r, Fresh(draft, no)), failed |-> m.failed, collided |-> m.collided]
    BY <1>4, <2>1
  <2>3. o.byURI = put /\ o.order = list /\ o.owner = m.owner /\ o.reg = Put(m.reg, r, Fresh(draft, no))
        /\ Shaped(o)
    BY <2>2 DEF Shaped
  <2>4. QED
    BY <2>3 DEF list, put
<1> HIDE DEF o
<1>6. /\ DOMAIN o.byURI = DOMAIN m.byURI \cup {uri} /\ o.byURI[uri] = r
      /\ \A u \in DOMAIN m.byURI : u # uri => o.byURI[u] = m.byURI[u]
      /\ DOMAIN o.reg = DOMAIN m.reg \cup {r}
  BY <1>5 DEF Put
<1>7. Listed(o)
  <2>1. CASE uri \in DOMAIN m.byURI
    <3>1. o.order = m.order /\ DOMAIN o.byURI = DOMAIN m.byURI
      BY <1>5, <1>6, <2>1
    <3>2. QED
      BY <1>3, <3>1 DEF Listed
  <2>2. CASE uri \notin DOMAIN m.byURI
    BY <1>3, <1>5, <1>6, <2>2, Appended
  <2>3. QED
    BY <2>1, <2>2
<1>8. UrisOK(o)
  BY <1>1, <1>3, <1>6 DEF UrisOK
<1>9. MapOK(world, o) /\ r \in DOMAIN o.reg
  BY <1>1, <1>5, <1>6, <1>7, <1>8, Registered
<1>10. Unwalked(world, o, world.doc) /\ Grown(world, m, o, world.doc)
  BY <1>5, <1>6 DEF Unwalked, Grown
<1>11. MapOK(world, q) /\ Grown(world, o, q, world.doc)
  BY <1>1, <1>2, <1>9, <1>10, WalkKeeps
<1>12. QED
  BY <1>10, <1>11 DEF Grown

(* A walk that failed leaves the map as far as it got. *)
LEMMA KeptFacts ==
  ASSUME NEW w, NEW m, MapOK(w, m), NEW q, q = Kept(m)
  PROVE  /\ MapOK(w, q) /\ ~q.failed /\ q.byURI = m.byURI /\ q.reg = m.reg /\ q.owner = m.owner
         /\ q.order = m.order /\ q.rootURI = m.rootURI
<1>1. q = [byURI |-> m.byURI, order |-> m.order, rootURI |-> m.rootURI, owner |-> m.owner,
           reg |-> m.reg, failed |-> FALSE, collided |-> m.collided]
  BY DEF Kept, MapOK, Shaped
<1>2. /\ ~q.failed /\ q.byURI = m.byURI /\ q.reg = m.reg /\ q.owner = m.owner /\ q.order = m.order
      /\ q.rootURI = m.rootURI /\ Shaped(q)
  BY <1>1 DEF Shaped
<1>3. UrisOK(q) /\ Listed(q) /\ OwnersOK(w, q)
  BY <1>2 DEF MapOK, UrisOK, Listed, OwnersOK
<1>4. \A r \in DOMAIN q.reg : DataOK(w, q, r, q.reg[r])
  BY <1>2 DEF MapOK, ResourcesOK, DataOK
<1>5. QED
  BY <1>2, <1>3, <1>4 DEF MapOK, ResourcesOK

-----------------------------------------------------------------------------
(* References *)

(* A fragment denotes a node or nothing. *)
LEMMA FragmentTyped ==
  ASSUME WorldOK(world), NEW m, MapOK(world, m), NEW r \in DOMAIN m.reg, NEW frag \in Path
  PROVE  Fragment(m, r, frag) \in Node(world) \cup {None}
<1>1. r.root \in Node(world)
  BY DEF MapOK, ResourcesOK, Resource
<1>2. CASE frag = << >>
  BY <1>1, <1>2 DEF Fragment
<1>3. CASE frag # << >> /\ Head(frag) = "#"
  <2> DEFINE path == S(r.root).path \o Tail(frag)
             T == {n \in DOMAIN world.schema : S(n).path = path}
             s == world.docs[S(r.root).doc]
             at == Those(s, T)
  <2>1. s \in Seq(Node(world))
    BY <1>1, Fields, Roots
  <2> HIDE DEF s, T
  <2>2. at \in Seq(Node(world) \cap T)
    BY <2>1, ThoseElements
  <2>3. Fragment(m, r, frag) = IF at = << >> THEN None ELSE at[1]
    BY <1>3 DEF Fragment, T, s
  <2> HIDE DEF at
  <2>4. at # << >> => at[1] \in Node(world)
    BY <2>2
  <2>5. QED
    BY <2>3, <2>4
<1>4. CASE frag # << >> /\ Head(frag) # "#"
  <2>1. Fragment(m, r, frag) \in {None} \cup {m.reg[r].anchors[x] : x \in DOMAIN m.reg[r].anchors}
    BY <1>4 DEF Fragment
  <2>2. \A x \in DOMAIN m.reg[r].anchors : m.reg[r].anchors[x] \in Node(world)
    BY DEF MapOK, ResourcesOK, DataOK, OwnersOK
  <2>3. QED
    BY <2>1, <2>2
<1>5. QED
  BY <1>2, <1>3, <1>4

(* What the map gains from a reference: no URI is lost, and only documents of
   the loader are walked. *)
Learned(w, m, q) ==
    /\ DOMAIN m.byURI \subseteq DOMAIN q.byURI
    /\ \A n \in DOMAIN q.owner : n \in DOMAIN m.owner
          \/ \E u \in DOMAIN w.remote : w.remote[u] = w.schema[n].doc

(* Fetching a document keeps the map well formed and no document is fetched twice. *)
LEMMA Fetched ==
  ASSUME WorldOK(world), NEW m, MapOK(world, m), NEW l, Fetching(world, m, l),
         NEW uri \in DOMAIN world.remote, uri \notin DOMAIN m.byURI, NEW draft \in Draft,
         NEW q, q = WalkDocument(m, world.remote[uri], uri, draft)
  PROVE  MapOK(world, q) /\ Learned(world, m, q) /\ Fetching(world, q, Append(l, uri))
<1> DEFINE d == world.remote[uri]
<1>1. d \in DOMAIN world.docs /\ uri \in Path
  BY DEF WorldOK
<1>2. Unwalked(world, m, d)
  BY DEF Fetching
<1>3. MapOK(world, q) /\ Grown(world, m, q, d) /\ uri \in DOMAIN q.byURI
  BY <1>1, <1>2, DocumentWalked
<1>4. DOMAIN m.byURI \subseteq DOMAIN q.byURI
  BY <1>3 DEF Grown
<1>5. Learned(world, m, q)
  BY <1>3 DEF Grown, Learned
<1>6. ASSUME NEW u \in DOMAIN world.remote, u \notin DOMAIN q.byURI
      PROVE  Unwalked(world, q, world.remote[u])
  <2>1. u # uri /\ u \notin DOMAIN m.byURI
    BY <1>3, <1>4, <1>6
  <2>2. world.remote[u] # d
    BY <2>1 DEF WorldOK
  <2>3. Unwalked(world, m, world.remote[u])
    BY <2>1 DEF Fetching
  <2>4. QED
    BY <1>3, <2>2, <2>3 DEF Grown, Unwalked
<1>7. /\ Append(l, uri) \in Seq(DOMAIN q.byURI)
      /\ \A i, j \in DOMAIN Append(l, uri) : Append(l, uri)[i] = Append(l, uri)[j] => i = j
  <2> DEFINE A == DOMAIN m.byURI
             B == DOMAIN q.byURI
  <2>1. l \in Seq(A) /\ A \subseteq B /\ uri \in B /\ uri \notin A
    BY <1>3, <1>4 DEF Fetching
  <2>2. \A i, j \in DOMAIN l : l[i] = l[j] => i = j
    BY DEF Fetching
  <2> HIDE DEF A, B
  <2>3. Append(l, uri) \in Seq(B)
    BY <2>1
  <2>4. \A i \in DOMAIN l : l[i] # uri
    BY <2>1
  <2>5. DOMAIN Append(l, uri) = DOMAIN l \cup {Len(l) + 1} /\ Append(l, uri)[Len(l) + 1] = uri
        /\ \A i \in DOMAIN l : Append(l, uri)[i] = l[i]
    BY <2>1
  <2> DEFINE p == Append(l, uri)
  <2> HIDE DEF p
  <2>6. \A i, j \in DOMAIN p : p[i] = p[j] => i = j
    BY <2>2, <2>4, <2>5, Zenon DEF p
  <2>7. QED
    BY <2>3, <2>6 DEF p, B
<1>8. QED
  BY <1>3, <1>5, <1>6, <1>7 DEF Fetching

(* Resolving a reference keeps the map well formed and fetches no document twice,
   however it ends. *)
LEMMA ResolutionsKeep ==
  ASSUME WorldOK(world), MapOK(world, rm), ~rm.failed, Fetching(world, rm, loads), faults \in 0 .. MaxFaults,
         NEW base \in Path, NEW keywords, NEW ref \in RefTo(keywords), NEW stack, NEW draft \in Draft,
         NEW got \in Resolutions(base, ref, stack, draft)
  PROVE  /\ MapOK(world, got.rm) /\ ~got.rm.failed /\ Learned(world, rm, got.rm)
         /\ Fetching(world, got.rm, got.loads) /\ got.faults \in 0 .. MaxFaults
         /\ got.target \in Node(world) \cup {None} /\ got.uri \in Path /\ got.key \in Path
<1> DEFINE uri == Resolved(base, ref.uri)
           lazy == uri \o ref.frag \in stack
           absent == ~lazy /\ uri \notin DOMAIN rm.byURI /\ uri \in DOMAIN world.remote
           inherited == Drafted(S(world.docs[world.remote[uri]][1]), draft)
           walked == WalkDocument(rm, world.remote[uri], uri, inherited)
<1>1. ref.uri \in Reference /\ ref.frag \in Path
  BY DEF RefTo
<1>2. uri \in Path
  BY <1>1, ResolvedPath
<1>3. uri \o ref.frag \in Path
  BY <1>1, <1>2 DEF Path
<1>4. PICK up \in {TRUE} \cup (IF absent /\ faults > 0 THEN {FALSE} ELSE {}) :
        got = Resolution(IF absent /\ up THEN walked ELSE rm, uri, ref, lazy, absent /\ up, up)
  BY DEF Resolutions
<1> DEFINE m == IF absent /\ up THEN walked ELSE rm
           list == IF absent /\ up THEN Append(loads, uri) ELSE loads
<1>5. up \in BOOLEAN /\ (~up => faults > 0)
  BY <1>4
<1>6. /\ got.rm = Kept(m) /\ got.loads = list
      /\ got.faults = (IF up THEN faults ELSE faults - 1)
      /\ got.target = (IF ~lazy /\ ~m.failed /\ uri \in DOMAIN m.byURI
                       THEN Fragment(m, m.byURI[uri], ref.frag) ELSE None)
      /\ got.uri = uri /\ got.key = uri \o ref.frag
  BY <1>4 DEF Resolution
<1>7. MapOK(world, m) /\ Learned(world, rm, m) /\ Fetching(world, m, list)
  <2>1. CASE absent /\ up
    <3>1. world.docs[world.remote[uri]][1] \in Node(world)
      BY <2>1, Roots DEF WorldOK
    <3>2. inherited \in Draft
      BY <3>1, DraftedIn
    <3> HIDE DEF inherited
    <3>3. uri \in DOMAIN world.remote /\ uri \notin DOMAIN rm.byURI /\ m = walked /\ list = Append(loads, uri)
      BY <2>1
    <3> HIDE DEF uri, m, list
    <3>4. QED
      BY <3>2, <3>3, Fetched
  <2>2. CASE ~(absent /\ up)
    <3>1. m = rm /\ list = loads
      BY <2>2
    <3>2. Learned(world, rm, rm)
      BY DEF Learned
    <3>3. QED
      BY <3>1, <3>2
  <2>3. QED
    BY <2>1, <2>2
<1> HIDE DEF m, list, uri, lazy
<1>8. /\ MapOK(world, got.rm) /\ ~got.rm.failed /\ got.rm.byURI = m.byURI /\ got.rm.owner = m.owner
  BY <1>6, <1>7, KeptFacts
<1>9. Learned(world, rm, got.rm) /\ Fetching(world, got.rm, got.loads)
  BY <1>6, <1>7, <1>8 DEF Learned, Fetching, Unwalked
<1>10. got.target \in Node(world) \cup {None}
  <2>1. CASE ~lazy /\ ~m.failed /\ uri \in DOMAIN m.byURI
    <3>1. m.byURI[uri] \in DOMAIN m.reg
      BY <1>7, <2>1 DEF MapOK, UrisOK
    <3>2. QED
      BY <1>1, <1>6, <1>7, <2>1, <3>1, FragmentTyped
  <2>2. CASE ~(~lazy /\ ~m.failed /\ uri \in DOMAIN m.byURI)
    BY <1>6, <2>2
  <2>3. QED
    BY <2>1, <2>2
<1>11. got.faults \in 0 .. MaxFaults
  BY <1>5, <1>6, AlphabetAssumption
<1>12. QED
  BY <1>2, <1>3, <1>6, <1>8, <1>9, <1>10, <1>11

-----------------------------------------------------------------------------
(* The calls to be made *)

(* What is known of a call by its kind. *)
LEMMA CallKinds ==
  ASSUME NEW w, NEW call \in Calls(w)
  PROVE  /\ call.call = "seed" => call \in SeedCall(w)
         /\ call.call = "bind" => call \in BindCall(w)
         /\ call.call = "bindref" => call \in BindRefCall
         /\ call.call = "enter" => call \in EnterCall(w)
         /\ call.call = "resolve" => call \in ResolveCall
         /\ call.call = "promote" => call \in PromoteCall(w)
         /\ call.call = "settle" => call \in SettleCall(w)
         /\ call.call = "targets" => call \in TargetsCall
         /\ call.call = "resource" => call \in ResourceCall
  BY DEF Calls, SeedCall, PlainCall, BindCall, BindRefCall, EnterCall, ResolveCall, PromoteCall, SettleCall,
         TargetsCall, ResourceCall

(* A call stays ready while the map, the cache and the evaluators grow. *)
LEMMA StillReady ==
  ASSUME NEW w, WorldOK(w), NEW call \in Calls(w), NEW m, NEW c, NEW e, CallReady(w, m, c, e, call),
         NEW m2, Learned(w, m, m2), NEW c2, DOMAIN c \subseteq DOMAIN c2, NEW e2,
         DOMAIN e \subseteq DOMAIN e2,
         call.call = "promote" => call.key \notin DOMAIN c2
  PROVE  CallReady(w, m2, c2, e2, call)
<1>1. CASE call.call = "seed"
  <2>1. Unwalked(w, m, call.doc) /\ \A u \in DOMAIN w.remote : w.remote[u] # call.doc
    BY <1>1 DEF CallReady
  <2>2. Unwalked(w, m2, call.doc)
    BY <2>1 DEF Unwalked, Learned
  <2>3. QED
    BY <1>1, <2>1, <2>2 DEF CallReady
<1>2. CASE call.call = "walk"
  <2>1. Unwalked(w, m, w.doc) /\ \A u \in DOMAIN w.remote : w.remote[u] # w.doc
    BY <1>2 DEF CallReady, WorldOK
  <2>2. Unwalked(w, m2, w.doc)
    BY <2>1 DEF Unwalked, Learned
  <2>3. QED
    BY <1>2, <2>2 DEF CallReady
<1>3. CASE call.call \notin {"seed", "walk"}
  BY <1>3 DEF CallReady, Learned
<1>4. QED
  BY <1>1, <1>2, <1>3

(* Calls t with new ones in the place of the first. *)
PushedOn(p, new, t) ==
    /\ Len(p) = Len(new) + Len(t) - 1 /\ Len(t) > 0
    /\ Len(new) \in Nat /\ Len(t) \in Nat /\ Len(p) \in Nat
    /\ DOMAIN new = 1 .. Len(new) /\ DOMAIN t = 1 .. Len(t) /\ DOMAIN p = 1 .. Len(p)
    /\ \A i \in DOMAIN new : i \in DOMAIN p /\ p[i] = new[i]
    /\ \A j \in 2 .. Len(t) : Len(new) + j - 1 \in DOMAIN p /\ p[Len(new) + j - 1] = t[j]
    /\ \A i \in DOMAIN p :
          \/ i \in DOMAIN new /\ p[i] = new[i]
          \/ \E j \in 2 .. Len(t) : i = Len(new) + j - 1 /\ p[i] = t[j]

(* The indices of the calls after some were pushed in the place of the first. *)
LEMMA Stacked ==
  ASSUME NEW A, NEW t \in Seq(A), t # << >>, NEW new \in Seq(A), NEW p, p = new \o Tail(t)
  PROVE  p \in Seq(A) /\ PushedOn(p, new, t)
<1> DEFINE s == Tail(t)
<1>1. s \in Seq(A) /\ Len(t) \in Nat /\ Len(t) # 0 /\ Len(s) = Len(t) - 1
  OBVIOUS
<1>2. \A j \in 2 .. Len(t) : s[j - 1] = t[j]
  OBVIOUS
<1> HIDE DEF s
<1>3. /\ p \in Seq(A) /\ Len(p) = Len(new) + Len(s)
      /\ \A k \in 1 .. Len(new) : k \in 1 .. Len(p) /\ p[k] = new[k]
      /\ \A k \in 1 .. Len(s) : Len(new) + k \in 1 .. Len(p) /\ p[Len(new) + k] = s[k]
  BY <1>1, ConcatIndices DEF s
<1>4. Len(new) \in Nat /\ DOMAIN new = 1 .. Len(new) /\ DOMAIN p = 1 .. Len(p)
  BY <1>3
<1>5. ASSUME NEW j \in 2 .. Len(t)
      PROVE  Len(new) + j - 1 \in DOMAIN p /\ p[Len(new) + j - 1] = t[j]
  <2>1. j - 1 \in 1 .. Len(s) /\ Len(new) + (j - 1) = Len(new) + j - 1
    BY <1>1, <1>4
  <2>2. QED
    BY <1>2, <1>3, <1>4, <2>1
<1>6. ASSUME NEW i \in DOMAIN p
      PROVE  \/ i \in DOMAIN new /\ p[i] = new[i]
             \/ \E j \in 2 .. Len(t) : i = Len(new) + j - 1 /\ p[i] = t[j]
  <2>1. CASE i <= Len(new)
    BY <1>3, <1>4, <2>1
  <2>2. CASE i > Len(new)
    <3>1. PICK j \in 2 .. Len(t) : i = Len(new) + j - 1
      <4>1. i - Len(new) + 1 \in 2 .. Len(t) /\ i = Len(new) + (i - Len(new) + 1) - 1
        BY <1>1, <1>3, <1>4, <2>2
      <4>2. QED
        BY <4>1
    <3>2. QED
      BY <1>5, <3>1
  <2>3. QED
    BY <1>4, <2>1, <2>2
<1>7. Len(p) = Len(new) + Len(t) - 1 /\ Len(t) > 0 /\ Len(p) \in Nat /\ DOMAIN t = 1 .. Len(t)
  BY <1>1, <1>3
<1>8. QED
  BY <1>1, <1>3, <1>4, <1>5, <1>6, <1>7 DEF PushedOn

(* Calls pushed in the place of the first are in order with the others when they are
   with each of them. *)
LEMMA OrderKept ==
  ASSUME NEW A, NEW t \in Seq(A), t # << >>, Ordered(t), NEW new \in Seq(A), Ordered(new),
         \A i \in DOMAIN new : \A j \in 2 .. Len(t) : InOrder(new[i], t[j]),
         NEW p, p = new \o Tail(t)
  PROVE  Ordered(p)
<1> SUFFICES ASSUME NEW y \in DOMAIN p, NEW x \in 1 .. y - 1
             PROVE  InOrder(p[x], p[y])
  BY DEF Ordered
<1>0. PushedOn(p, new, t)
  BY Stacked
<1>1. /\ Len(new) \in Nat /\ Len(t) \in Nat /\ DOMAIN new = 1 .. Len(new) /\ DOMAIN t = 1 .. Len(t)
      /\ DOMAIN p = 1 .. Len(p) /\ Len(p) \in Nat
  BY <1>0 DEF PushedOn
<1>2. x \in DOMAIN p /\ x < y
  BY <1>1
<1>3. CASE y \in DOMAIN new /\ p[y] = new[y]
  <2>1. x \in DOMAIN new /\ p[x] = new[x]
    BY <1>0, <1>1, <1>2, <1>3 DEF PushedOn
  <2>2. QED
    BY <1>3, <2>1 DEF Ordered
<1>4. ASSUME NEW j \in 2 .. Len(t), y = Len(new) + j - 1, p[y] = t[j]
      PROVE  InOrder(p[x], p[y])
  <2>1. CASE x \in DOMAIN new /\ p[x] = new[x]
    BY <1>4, <2>1
  <2>2. ASSUME NEW i \in 2 .. Len(t), x = Len(new) + i - 1, p[x] = t[i]
        PROVE  InOrder(p[x], p[y])
    <3>1. i \in 1 .. j - 1 /\ j \in DOMAIN t
      BY <1>1, <1>2, <1>4, <2>2
    <3>2. QED
      BY <1>4, <2>2, <3>1 DEF Ordered
  <2>3. \/ x \in DOMAIN new /\ p[x] = new[x]
        \/ \E i \in 2 .. Len(t) : x = Len(new) + i - 1 /\ p[x] = t[i]
    BY <1>0, <1>2 DEF PushedOn
  <2>4. QED
    BY <2>1, <2>2, <2>3
<1>5. \/ y \in DOMAIN new /\ p[y] = new[y]
      \/ \E j \in 2 .. Len(t) : y = Len(new) + j - 1 /\ p[y] = t[j]
  BY <1>0 DEF PushedOn
<1>6. QED
  BY <1>3, <1>4, <1>5

(* A step that is not part of the building of a subschema finds none being
   built below it: it may be followed by other steps of its kind. *)
LEMMA OuterPush ==
  ASSUME NEW w, NEW m, NEW c, NEW e, NEW t, TodoOK(w, m, c, e, t), t # << >>, Head(t).call \notin Inner,
         NEW new \in Seq(Calls(w)),
         \A i \in DOMAIN new : new[i].call \notin {"seed", "walk", "resolve", "promote"},
         \A i \in DOMAIN new : new[i].call = "round" => i = Len(new) /\ Len(t) = 1,
         new = << >> \/ Head(t).call # "seed",
         NEW m2, NEW c2, NEW e2, \A i \in DOMAIN new : CallReady(w, m2, c2, e2, new[i]),
         \A j \in 2 .. Len(t) : CallReady(w, m2, c2, e2, t[j])
  PROVE  TodoOK(w, m2, c2, e2, new \o Tail(t))
<1> DEFINE p == new \o Tail(t)
<1>1. t \in Seq(Calls(w)) /\ Ordered(t)
  BY DEF TodoOK
<1>2. /\ Len(new) \in Nat /\ Len(t) \in Nat /\ DOMAIN new = 1 .. Len(new) /\ DOMAIN t = 1 .. Len(t)
      /\ Len(t) # 0 /\ Head(t) = t[1]
  BY <1>1
<1>3. \A j \in 2 .. Len(t) : j \in DOMAIN t /\ 1 \in 1 .. j - 1
  BY <1>2
<1>4. ASSUME NEW j \in 2 .. Len(t)
      PROVE  InOrder(t[1], t[j]) /\ t[j].call \notin {"promote", "resolve"}
  <2>1. InOrder(t[1], t[j])
    BY <1>1, <1>3 DEF Ordered
  <2>2. t[1].call \notin Inner
    BY <1>2
  <2>3. QED
    BY <2>1, <2>2 DEF InOrder, Inner
<1>5. ASSUME NEW i \in DOMAIN new, NEW j \in 2 .. Len(t) PROVE InOrder(new[i], t[j])
  <2>1. t[1].call # "seed" /\ new[i].call # "round"
    BY <1>2, <1>5
  <2>2. QED
    BY <1>4, <2>1 DEF InOrder
<1>6. Ordered(new)
  <2> SUFFICES ASSUME NEW j \in DOMAIN new, NEW i \in 1 .. j - 1 PROVE InOrder(new[i], new[j])
    BY DEF Ordered
  <2>1. i \in DOMAIN new /\ i # Len(new)
    <3>1. j \in 1 .. Len(new) /\ Len(new) \in Nat
      BY <1>2
    <3>2. i \in 1 .. Len(new) /\ i # Len(new)
      BY ONLY <3>1, i \in 1 .. j - 1
    <3>3. QED
      BY <1>2, <3>2
  <2>2. QED
    BY <1>2, <2>1 DEF InOrder
<1>7. p \in Seq(Calls(w)) /\ Ordered(p)
  BY <1>1, <1>5, <1>6, OrderKept, Stacked
<1>8. ASSUME NEW x \in DOMAIN p
      PROVE  CallReady(w, m2, c2, e2, p[x]) /\ p[x].call \notin {"promote", "resolve"}
  <2>1. \/ x \in DOMAIN new /\ p[x] = new[x]
        \/ \E j \in 2 .. Len(t) : x = Len(new) + j - 1 /\ p[x] = t[j]
    <3>1. PushedOn(p, new, t)
      BY <1>1, Stacked
    <3>2. QED
      BY <3>1 DEF PushedOn
  <2> HIDE DEF p
  <2>2. QED
    BY <1>4, <2>1
<1> HIDE DEF p
<1>9. TodoOK(w, m2, c2, e2, p)
  BY <1>7, <1>8 DEF TodoOK
<1>10. QED
  BY <1>9 DEF p

(* The calls of t from the k-th on are among those of p. *)
Holds(p, t, k) == \A j \in k .. Len(t) : \E y \in DOMAIN p : p[y] = t[j]
Readied(w, m, c, e, t, k) == \A j \in k .. Len(t) : CallReady(w, m, c, e, t[j])

(* The calls that are left when an error returns to the one that records it. *)
LEMMA AfterThrow ==
  ASSUME NEW w, NEW m, NEW c, NEW e, NEW t, TodoOK(w, m, c, e, t), NEW k \in DOMAIN t,
         t[k].call = "settle", NEW p, p = SubSeq(t, k, Len(t)),
         NEW m2, NEW c2, NEW e2, Readied(w, m2, c2, e2, t, k)
  PROVE  TodoOK(w, m2, c2, e2, p) /\ Holds(p, t, k)
<1>1. t \in Seq(Calls(w)) /\ Ordered(t)
  BY DEF TodoOK
<1>2. /\ Len(t) \in Nat /\ DOMAIN t = 1 .. Len(t) /\ k \in Nat /\ k >= 1 /\ k <= Len(t)
  BY <1>1
<1>3. /\ p \in Seq(Calls(w)) /\ Len(p) = Len(t) - k + 1 /\ DOMAIN p = 1 .. Len(p)
      /\ \A i \in DOMAIN p : p[i] = t[k + i - 1]
  BY <1>1, <1>2
<1>4. \A i \in DOMAIN p : i \in Nat /\ k + i - 1 \in k .. Len(t) /\ k + i - 1 \in DOMAIN t
  BY <1>2, <1>3
<1>5. Ordered(p)
  <2> SUFFICES ASSUME NEW j \in DOMAIN p, NEW i \in 1 .. j - 1 PROVE InOrder(p[i], p[j])
    BY DEF Ordered
  <2>1. i \in DOMAIN p /\ k + i - 1 \in 1 .. (k + j - 1) - 1
    BY <1>2, <1>3
  <2>2. InOrder(t[k + i - 1], t[k + j - 1])
    BY <1>1, <1>4, <2>1 DEF Ordered
  <2>3. QED
    BY <1>3, <2>1, <2>2
<1>6. \A j \in k .. Len(t) : t[j].call \notin {"promote", "resolve"}
  <2> SUFFICES ASSUME NEW j \in k .. Len(t) PROVE t[j].call \notin {"promote", "resolve"}
    OBVIOUS
  <2>1. CASE j = k
    BY <2>1
  <2>2. CASE j # k
    <3>1. j \in DOMAIN t /\ k \in 1 .. j - 1
      BY <1>2, <2>2
    <3>2. InOrder(t[k], t[j])
      BY <1>1, <3>1 DEF Ordered
    <3>3. QED
      BY <3>2 DEF InOrder, Inner
  <2>3. QED
    BY <2>1, <2>2
<1>7. \A i \in DOMAIN p : CallReady(w, m2, c2, e2, p[i]) /\ p[i].call \notin {"promote", "resolve"}
  BY <1>3, <1>4, <1>6 DEF Readied
<1>8. TodoOK(w, m2, c2, e2, p)
  BY <1>3, <1>5, <1>7 DEF TodoOK
<1>9. ASSUME NEW j \in k .. Len(t) PROVE \E y \in DOMAIN p : p[y] = t[j]
  <2>1. j - k + 1 \in DOMAIN p /\ k + (j - k + 1) - 1 = j
    BY <1>2, <1>3
  <2>2. p[j - k + 1] = t[j]
    BY <1>3, <2>1
  <2>3. QED
    BY <2>1, <2>2
<1>10. QED
  BY <1>8, <1>9 DEF Holds

(* No call that will record a target is lost. *)
SettlesKept(t, p) == \A x \in DOMAIN t : t[x].call = "settle" => \E y \in DOMAIN p : p[y] = t[x]

(* An error returns to the nearest call that records it: the calls below are as they
   were and no record is lost. *)
LEMMA ThrowKeeps ==
  ASSUME NEW w, NEW m, NEW c, NEW e, TodoOK(w, m, c, e, todo), todo # << >>, Head(todo).call # "settle",
         NEW m2, NEW c2, NEW e2, \A j \in 2 .. Len(todo) : CallReady(w, m2, c2, e2, todo[j]),
         outcome = "running", Throw
  PROVE  /\ TodoOK(w, m2, c2, e2, todo') /\ SettlesKept(todo, todo')
         /\ outcome' # "compiled" /\ (outcome' # "running" => todo' = << >>)
<1>1. todo \in Seq(Calls(w)) /\ Len(todo) \in Nat /\ DOMAIN todo = 1 .. Len(todo) /\ Head(todo) = todo[1]
  BY DEF TodoOK
<1>2. CASE Catches = {}
  <2>1. todo' = << >> /\ outcome' = "error"
    BY <1>2 DEF Throw
  <2>2. TodoOK(w, m2, c2, e2, << >>)
    BY DEF TodoOK, Ordered
  <2>3. SettlesKept(todo, << >>)
    BY <1>2 DEF SettlesKept, Catches
  <2>4. QED
    BY <2>1, <2>2, <2>3
<1>3. CASE Catches # {}
  <2> DEFINE k == CHOOSE i \in Catches : \A j \in Catches : i <= j
  <2>1. Catches \in SUBSET Nat
    BY <1>1 DEF Catches
  <2>2. \E i \in Catches : \A j \in Catches : i <= j
    BY <1>3, <2>1, LeastNat
  <2>3. k \in Catches /\ \A j \in Catches : k <= j
    BY <2>2
  <2>4. todo' = SubSeq(todo, k, Len(todo)) /\ outcome' = outcome
    BY <1>3 DEF Throw
  <2> HIDE DEF k
  <2>5. k \in DOMAIN todo /\ todo[k].call = "settle" /\ k # 1
    BY <1>1, <2>3 DEF Catches
  <2>6. Readied(w, m2, c2, e2, todo, k)
    BY <1>1, <2>5 DEF Readied
  <2>7. /\ TodoOK(w, m2, c2, e2, todo')
        /\ \A j \in k .. Len(todo) : \E y \in DOMAIN todo' : todo'[y] = todo[j]
    <3> DEFINE p == todo'
    <3>1. p = SubSeq(todo, k, Len(todo))
      BY <2>4
    <3> HIDE DEF p
    <3>2. TodoOK(w, m2, c2, e2, p) /\ Holds(p, todo, k)
      BY <2>5, <2>6, <3>1, AfterThrow
    <3>3. QED
      BY <3>2 DEF p, Holds
  <2>8. \A x \in DOMAIN todo : todo[x].call = "settle" => x \in k .. Len(todo)
    BY <1>1, <2>3, <2>5 DEF Catches
  <2>9. SettlesKept(todo, todo')
    BY <2>7, <2>8 DEF SettlesKept
  <2>10. QED
    BY <2>4, <2>7, <2>9
<1>4. QED
  BY <1>2, <1>3

(* A call that is not a settlement may give way to others. *)
LEMMA PushSettles ==
  ASSUME NEW A, NEW t \in Seq(A), t # << >>, Head(t).call # "settle", NEW new \in Seq(A), NEW p,
         p = new \o Tail(t)
  PROVE  SettlesKept(t, p)
<1>0. PushedOn(p, new, t)
  BY Stacked
<1>1. PushedOn(p, new, t) /\ Head(t) = t[1]
  BY <1>0
<1>2. ASSUME NEW x \in DOMAIN t, t[x].call = "settle" PROVE \E y \in DOMAIN p : p[y] = t[x]
  <2>1. x \in 2 .. Len(t)
    BY <1>1, <1>2 DEF PushedOn
  <2>2. QED
    BY <1>1, <2>1 DEF PushedOn
<1>3. QED
  BY <1>2 DEF SettlesKept

(* What is known of the targets of visited subschemas survives a step that keeps
   their entries and the calls that record targets. *)
LEMMA SeenStays ==
  ASSUME NEW w, NEW c, NEW e, NEW t, NEW s, SeenOK(w, c, e, t, s), NEW p, SettlesKept(t, p),
         NEW c2, \A k \in s : k \in DOMAIN c2 /\ c2[k] = c[k],
         NEW e2, \A k \in s : \A i : << k, i >> \in DOMAIN e2 =>
                                        << k, i >> \in DOMAIN e /\ e2[<< k, i >>] = e[<< k, i >>]
  PROVE  SeenOK(w, c2, e2, p, s)
<1>1. s \subseteq DOMAIN c2
  OBVIOUS
<1>2. ASSUME NEW k \in s, NEW i \in DOMAIN w.schema[c2[k].node].refs, << k, i >> \in DOMAIN e2,
             e2[<< k, i >>].target # None
      PROVE  \/ e2[<< k, i >>].target \in e2[<< k, i >>].built \cup e2[<< k, i >>].failed
             \/ \E x \in DOMAIN p : p[x] = Settle(<< k, i >>, e2[<< k, i >>].target)
  <2>1. /\ << k, i >> \in DOMAIN e /\ e2[<< k, i >>] = e[<< k, i >>]
        /\ i \in DOMAIN w.schema[c[k].node].refs
    BY <1>2
  <2>2. \/ e[<< k, i >>].target \in e[<< k, i >>].built \cup e[<< k, i >>].failed
        \/ \E x \in DOMAIN t : t[x] = Settle(<< k, i >>, e[<< k, i >>].target)
    BY <1>2, <2>1 DEF SeenOK
  <2>3. CASE \E x \in DOMAIN t : t[x] = Settle(<< k, i >>, e[<< k, i >>].target)
    <3>1. PICK x \in DOMAIN t : t[x] = Settle(<< k, i >>, e[<< k, i >>].target)
      BY <2>3
    <3>2. t[x].call = "settle"
      BY <3>1 DEF Settle
    <3>3. \E y \in DOMAIN p : p[y] = t[x]
      BY <3>2 DEF SettlesKept
    <3>4. QED
      BY <2>1, <3>1, <3>3
  <2>4. QED
    BY <2>1, <2>2, <2>3
<1>3. QED
  BY <1>1, <1>2 DEF SeenOK

(* The calls below the first are still ready after it. *)
LEMMA TailReady ==
  ASSUME NEW w, WorldOK(w), NEW m, NEW c, NEW e, NEW t, TodoOK(w, m, c, e, t),
         NEW m2, Learned(w, m, m2), NEW c2, DOMAIN c \subseteq DOMAIN c2, NEW e2,
         DOMAIN e \subseteq DOMAIN e2,
         \A j \in 2 .. Len(t) : t[j].call = "promote" => t[j].key \notin DOMAIN c2
  PROVE  \A j \in 2 .. Len(t) : CallReady(w, m2, c2, e2, t[j])
<1> SUFFICES ASSUME NEW j \in 2 .. Len(t) PROVE CallReady(w, m2, c2, e2, t[j])
  OBVIOUS
<1>1. t \in Seq(Calls(w)) /\ j \in DOMAIN t
  BY DEF TodoOK
<1>2. t[j] \in Calls(w) /\ CallReady(w, m, c, e, t[j])
  BY <1>1 DEF TodoOK
<1>3. QED
  BY <1>2, StillReady

(* A step may learn nothing. *)
LEMMA LearnedNothing ==
  ASSUME NEW w, NEW m
  PROVE  Learned(w, m, m)
  BY DEF Learned

(* The parts of the invariant after a step, put together. *)
LEMMA Assembled ==
  ASSUME BInv, UNCHANGED given, MapOK(world, rm'), ~rm'.failed, Fetching(world, rm', loads'),
         EvalOK(world, eval'), CacheOK(world, cache', eval'), TodoOK(world, rm', cache', eval', todo'),
         SeenOK(world, cache', eval', todo', seen'), work' \in Seq(DOMAIN eval'),
         EndOK(cache', todo', seen', outcome'), faults' \in 0 .. MaxFaults
  PROVE  BInv'
<1>1. world' = world
  BY DEF given
<1>2. QED
  BY <1>1 DEF BInv

(* While there are calls to be made Compile runs. *)
LEMMA StillRunning ==
  ASSUME BInv, todo # << >>
  PROVE  outcome = "running"
  BY DEF BInv, EndOK

-----------------------------------------------------------------------------
(* The steps *)

Running == BInv /\ UNCHANGED given /\ todo # << >>

(* What the invariant says of the first call. *)
LEMMA FirstCall ==
  ASSUME Running
  PROVE  /\ WorldOK(world) /\ todo \in Seq(Calls(world)) /\ Call = todo[1] /\ 1 \in DOMAIN todo
         /\ Call \in Calls(world) /\ CallReady(world, rm, cache, eval, Call)
         /\ Len(todo) \in Nat /\ Len(todo) > 0 /\ DOMAIN todo = 1 .. Len(todo) /\ outcome = "running"
<1>1. WorldOK(world) /\ TodoOK(world, rm, cache, eval, todo) /\ todo # << >>
  BY DEF Running, BInv
<1>2. todo \in Seq(Calls(world)) /\ \A i \in DOMAIN todo : CallReady(world, rm, cache, eval, todo[i])
  BY <1>1 DEF TodoOK
<1>3. 1 \in DOMAIN todo /\ Call = todo[1] /\ Len(todo) \in Nat /\ Len(todo) > 0
         /\ DOMAIN todo = 1 .. Len(todo)
  BY <1>1, <1>2 DEF Call
<1>4. QED
  BY <1>1, <1>2, <1>3, StillRunning DEF Running

(* Calls a step may leave in its place that is no part of the building of a subschema. *)
MayFollow(m, new) ==
    /\ \A i \in DOMAIN new :
          /\ new[i].call \notin {"seed", "walk", "resolve", "promote", "round"}
          /\ CallReady(world, m, cache, eval, new[i])
    /\ new = << >> \/ Call.call # "seed"

(* The calls after a step that is no part of the building of a subschema. *)
LEMMA OuterCalls ==
  ASSUME Running, Call.call \notin Inner \cup {"settle"}, NEW m, Readied(world, m, cache, eval, todo, 2),
         Throw \/ \E new \in Seq(Calls(world)) : Then(new) /\ MayFollow(m, new)
  PROVE  /\ TodoOK(world, m, cache, eval, todo') /\ SettlesKept(todo, todo')
         /\ outcome' # "compiled" /\ (outcome' # "running" => todo' = << >>)
<1>1. TodoOK(world, rm, cache, eval, todo) /\ todo # << >> /\ Call = Head(todo) /\ outcome = "running"
  BY StillRunning DEF Running, BInv, Call
<1>2. todo \in Seq(Calls(world))
  BY FirstCall
<1>3. \A j \in 2 .. Len(todo) : CallReady(world, m, cache, eval, todo[j])
  BY DEF Readied
<1>4. CASE Throw
  BY <1>1, <1>3, <1>4, ThrowKeeps
<1>5. ASSUME NEW new \in Seq(Calls(world)), Then(new), MayFollow(m, new)
      PROVE  /\ TodoOK(world, m, cache, eval, todo') /\ SettlesKept(todo, todo')
             /\ outcome' = outcome
  <2>1. todo' = new \o Tail(todo) /\ outcome' = outcome
    BY <1>5 DEF Then
  <2>2. TodoOK(world, m, cache, eval, new \o Tail(todo))
    <3>1. /\ \A i \in DOMAIN new : new[i].call \notin {"seed", "walk", "resolve", "promote"}
          /\ \A i \in DOMAIN new : new[i].call = "round" => i = Len(new) /\ Len(todo) = 1
          /\ \A i \in DOMAIN new : CallReady(world, m, cache, eval, new[i])
          /\ new = << >> \/ Head(todo).call # "seed"
      BY <1>1, <1>5 DEF MayFollow
    <3>2. QED
      BY <1>1, <1>3, <3>1, OuterPush
  <2>3. SettlesKept(todo, new \o Tail(todo))
    BY <1>1, <1>2, PushSettles
  <2>4. QED
    BY <2>1, <2>2, <2>3
<1>6. QED
  BY <1>1, <1>4, <1>5

(* What is known of the subschemas visited stays so. *)
LEMMA StillSeen ==
  ASSUME Running, NEW p, SettlesKept(todo, p)
  PROVE  SeenOK(world, cache, eval, p, seen)
<1>1. SeenOK(world, cache, eval, todo, seen)
  BY DEF Running, BInv
<1>2. \A k \in seen : k \in DOMAIN cache
  BY <1>1 DEF SeenOK
<1>3. QED
  BY <1>1, <1>2, SeenStays

(* A step that is no part of the building of a subschema: it learns, throws or
   makes other calls. *)
LEMMA OuterStep ==
  ASSUME Running, Call.call \notin Inner \cup {"settle"},
         MapOK(world, rm'), ~rm'.failed, Fetching(world, rm', loads'), faults' \in 0 .. MaxFaults,
         Readied(world, rm', cache, eval, todo, 2),
         UNCHANGED << cache, eval, seen, work >>,
         Throw \/ \E new \in Seq(Calls(world)) : Then(new) /\ MayFollow(rm', new)
  PROVE  BInv'
<1>1. /\ EvalOK(world, eval') /\ CacheOK(world, cache', eval') /\ work' \in Seq(DOMAIN eval')
  BY DEF Running, BInv
<1>2. /\ TodoOK(world, rm', cache, eval, todo') /\ SettlesKept(todo, todo')
      /\ outcome' # "compiled" /\ (outcome' # "running" => todo' = << >>)
  <2> DEFINE m == rm'
  <2>1. /\ Readied(world, m, cache, eval, todo, 2)
        /\ Throw \/ \E new \in Seq(Calls(world)) : Then(new) /\ MayFollow(m, new)
    OBVIOUS
  <2> HIDE DEF m
  <2>2. /\ TodoOK(world, m, cache, eval, todo') /\ SettlesKept(todo, todo')
        /\ outcome' # "compiled" /\ (outcome' # "running" => todo' = << >>)
    BY <2>1, OuterCalls
  <2>3. QED
    BY <2>2 DEF m
<1>3. SeenOK(world, cache', eval', todo', seen')
  <2> DEFINE p == todo'
  <2>1. SettlesKept(todo, p)
    BY <1>2
  <2> HIDE DEF p
  <2>2. SeenOK(world, cache, eval, p, seen)
    BY <2>1, StillSeen
  <2>3. QED
    BY <2>2 DEF p
<1>4. EndOK(cache', todo', seen', outcome') /\ TodoOK(world, rm', cache', eval', todo')
  BY <1>2 DEF EndOK
<1>5. QED
  BY <1>1, <1>3, <1>4, Assembled DEF Running

(* A step may leave no call in its place. *)
LEMMA NoCalls ==
  ASSUME NEW w, NEW m
  PROVE  << >> \in Seq(Calls(w)) /\ MayFollow(m, << >>)
  BY DEF MayFollow

(* A walk: the document's nodes become known, and no other's. *)
LEMMA WalkStep ==
  ASSUME Running, Call.call \in {"seed", "walk"}, NEW d,
         d = (IF Call.call = "seed" THEN Call.doc ELSE world.doc),
         NEW m, MapOK(world, m), Grown(world, rm, m, d), Walks(m)
  PROVE  BInv'
<1>1. /\ WorldOK(world) /\ TodoOK(world, rm, cache, eval, todo) /\ Fetching(world, rm, loads)
      /\ faults \in 0 .. MaxFaults
  BY DEF Running, BInv
<1>2. /\ rm' = Kept(m) /\ (Throw \/ Then(<< >>))
      /\ UNCHANGED << cache, eval, seen, work, loads, faults >>
  BY DEF Walks
<1>3. /\ MapOK(world, rm') /\ ~rm'.failed /\ rm'.byURI = m.byURI /\ rm'.owner = m.owner
  BY <1>2, KeptFacts
<1>4. \A u \in DOMAIN world.remote : world.remote[u] # d
  <2>1. CASE Call.call = "seed"
    BY <2>1, FirstCall DEF CallReady
  <2>2. CASE Call.call = "walk"
    BY <1>1, <2>2 DEF WorldOK
  <2>3. QED
    BY <2>1, <2>2
<1>5. Fetching(world, rm', loads')
  <2>1. DOMAIN rm.byURI \subseteq DOMAIN rm'.byURI
    BY <1>3 DEF Grown
  <2>2. \A u \in DOMAIN world.remote : u \notin DOMAIN rm'.byURI => Unwalked(world, rm', world.remote[u])
    BY <1>1, <1>3, <1>4, <2>1 DEF Fetching, Unwalked, Grown
  <2>3. loads' \in Seq(DOMAIN rm'.byURI) /\ \A i, j \in DOMAIN loads' : loads'[i] = loads'[j] => i = j
    BY <1>1, <1>2, <2>1 DEF Fetching
  <2>4. QED
    BY <2>2, <2>3 DEF Fetching
<1>6. Readied(world, rm', cache, eval, todo, 2)
  <2> SUFFICES ASSUME NEW j \in 2 .. Len(todo) PROVE CallReady(world, rm', cache, eval, todo[j])
    BY DEF Readied
  <2>1. j \in DOMAIN todo /\ 1 \in 1 .. j - 1 /\ Call = todo[1]
    BY FirstCall
  <2>2. InOrder(Call, todo[j]) /\ CallReady(world, rm, cache, eval, todo[j]) /\ todo[j] \in Calls(world)
    BY <1>1, <2>1 DEF TodoOK, Ordered
  <2>3. CASE todo[j].call = "seed"
    <3>1. Call.call = "seed" /\ Call.doc # todo[j].doc
      BY <2>2, <2>3 DEF InOrder
    <3>2. Unwalked(world, rm, todo[j].doc) /\ \A u \in DOMAIN world.remote : world.remote[u] # todo[j].doc
      BY <2>2, <2>3 DEF CallReady
    <3>3. Unwalked(world, rm', todo[j].doc)
      BY <1>3, <3>1, <3>2 DEF Unwalked, Grown
    <3>4. QED
      BY <2>3, <3>2, <3>3 DEF CallReady
  <2>4. CASE todo[j].call = "walk"
    <3>1. Call.call = "seed"
      BY <2>2, <2>4 DEF InOrder
    <3>2. Call \in SeedCall(world)
      BY <3>1, FirstCall, CallKinds
    <3>3. Call.doc # world.doc
      BY <3>2 DEF SeedCall
    <3>4. Unwalked(world, rm, world.doc)
      BY <2>2, <2>4 DEF CallReady
    <3>5. Unwalked(world, rm', world.doc)
      BY <1>3, <3>1, <3>3, <3>4 DEF Unwalked, Grown
    <3>6. QED
      BY <2>4, <3>5 DEF CallReady
  <2>5. CASE todo[j].call \notin {"seed", "walk"}
    BY <1>3, <2>2, <2>5 DEF CallReady, Grown
  <2>6. QED
    BY <2>3, <2>4, <2>5
<1>7. Call.call \notin Inner \cup {"settle"}
  BY DEF Inner
<1>8. Throw \/ \E new \in Seq(Calls(world)) : Then(new) /\ MayFollow(rm', new)
  BY <1>2, NoCalls
<1>9. faults' \in 0 .. MaxFaults /\ UNCHANGED << cache, eval, seen, work >>
  BY <1>1, <1>2
<1>10. QED
  BY <1>3, <1>5, <1>6, <1>7, <1>8, <1>9, OuterStep

(* The calls below the first remain ready when a document is fetched. *)
LEMMA StillReadied ==
  ASSUME Running, NEW m, Learned(world, rm, m)
  PROVE  Readied(world, m, cache, eval, todo, 2)
<1>1. WorldOK(world) /\ TodoOK(world, rm, cache, eval, todo) /\ \A j \in 2 .. Len(todo) : j \in DOMAIN todo
  BY FirstCall DEF Running, BInv
<1>2. \A j \in 2 .. Len(todo) : todo[j].call = "promote" => todo[j].key \notin DOMAIN cache
  BY <1>1 DEF TodoOK, CallReady
<1>3. \A j \in 2 .. Len(todo) : CallReady(world, m, cache, eval, todo[j])
  BY <1>1, <1>2, TailReady
<1>4. QED
  BY <1>3 DEF Readied

(* seedResources walks one registered document. *)
LEMMA WalkSeedStep ==
  ASSUME Running, WalkSeed
  PROVE  BInv'
<1>1. Call.call = "seed" /\ Call \in SeedCall(world) /\ Unwalked(world, rm, Call.doc)
  BY FirstCall, CallKinds DEF WalkSeed, At, Call, CallReady
<1>2. Call.doc \in DOMAIN world.docs /\ Call.uri \in Path /\ "modern" \in Draft
  BY <1>1 DEF SeedCall, Draft
<1> DEFINE m == WalkDocument(rm, Call.doc, Call.uri, "modern")
<1>3. WorldOK(world) /\ MapOK(world, rm)
  BY DEF Running, BInv
<1>4. Walks(m)
  BY DEF WalkSeed
<1>5. MapOK(world, m) /\ Grown(world, rm, m, Call.doc)
  BY <1>1, <1>2, <1>3, DocumentWalked
<1> HIDE DEF m
<1>6. QED
  BY <1>1, <1>4, <1>5, WalkStep

(* The schema is walked into the map. *)
LEMMA WalkRootStep ==
  ASSUME Running, WalkRoot
  PROVE  BInv'
<1>1. Call.call = "walk" /\ Unwalked(world, rm, world.doc)
  BY FirstCall DEF WalkRoot, At, Call, CallReady
<1> DEFINE m == WalkResource(rm, RootURI, RootDraft)
<1>2. WorldOK(world) /\ MapOK(world, rm)
  BY DEF Running, BInv
<1>3. Walks(m)
  BY DEF WalkRoot
<1>4. MapOK(world, m) /\ Grown(world, rm, m, world.doc)
  BY <1>1, <1>2, RootTyped, ResourceWalked
<1> HIDE DEF m
<1>5. QED
  BY <1>1, <1>3, <1>4, WalkStep

(* A step that leaves the map alone. *)
LEMMA StayStep ==
  ASSUME Running, Call.call \notin Inner \cup {"settle"},
         UNCHANGED << rm, loads, faults, cache, eval, seen, work >>,
         Throw \/ \E new \in Seq(Calls(world)) : Then(new) /\ MayFollow(rm, new)
  PROVE  BInv'
<1>1. /\ MapOK(world, rm) /\ ~rm.failed /\ Fetching(world, rm, loads) /\ faults \in 0 .. MaxFaults
  BY DEF Running, BInv
<1>2. rm' = rm /\ loads' = loads /\ faults' = faults /\ UNCHANGED << cache, eval, seen, work >>
  OBVIOUS
<1>3. Readied(world, rm, cache, eval, todo, 2)
  BY StillReadied, LearnedNothing
<1>4. QED
  BY <1>1, <1>2, <1>3, OuterStep

(* A function on the indices of a sequence is a sequence. *)
LEMMA Lists ==
  ASSUME NEW A, NEW B, NEW s \in Seq(A), NEW f, DOMAIN f = DOMAIN s, f = [i \in DOMAIN s |-> f[i]],
         \A i \in DOMAIN s : f[i] \in B
  PROVE  f \in Seq(B) /\ Len(f) = Len(s)
<1>1. DOMAIN s = 1 .. Len(s) /\ Len(s) \in Nat
  OBVIOUS
<1>2. f \in [1 .. Len(s) -> B]
  BY <1>1
<1>3. QED
  BY <1>1, <1>2

(* bindInto leaves the binding of the children and the references. *)
LEMMA BindsNext ==
  ASSUME Running, BindNode
  PROVE  \/ Throw
         \/ \E new \in Seq(Calls(world)) :
               Then(new) /\ \A i \in DOMAIN new : new[i].call \in {"bind", "bindref"}
<1>1. Call.call = "bind" /\ Call \in BindCall(world) /\ WorldOK(world)
  BY FirstCall, CallKinds DEF BindNode, At, Call
<1> DEFINE n == Call.n
           draft == Drafted(S(n), Call.draft)
           base == IF RefOnly(S(n), draft) THEN Call.base ELSE Named(S(n), Call.base)
           stack == Call.stack \cup {base}
           Children(kinds) == [i \in DOMAIN Kids(n, kinds) |-> Bind(Kids(n, kinds)[i], base, stack, draft)]
           references == [i \in DOMAIN S(n).refs |-> BindRef(S(n).refs[i], base, stack, draft)]
           Binds == BindCall(world) \cup BindRefCall
           first == Children({"$defs"})
           last == Children({"definitions", "applied"})
           new == first \o references \o last
<1>2. n \in Node(world) /\ Call.base \in Path /\ Call.stack \in SUBSET Path /\ Call.draft \in Draft
  BY <1>1 DEF BindCall
<1>3. draft \in Draft /\ base \in Path
  BY <1>1, <1>2, NamedPath, DraftedIn
<1>4. stack \in SUBSET Path
  BY <1>2, <1>3
<1> HIDE DEF n, draft, base, stack
<1>5. ASSUME NEW kinds PROVE Children(kinds) \in Seq(Binds)
  <2> DEFINE kids == Kids(n, kinds)
             f == [i \in DOMAIN kids |-> Bind(kids[i], base, stack, draft)]
  <2>1. kids \in Seq(Node(world))
    BY <1>1, <1>2, KidsTyped
  <2> HIDE DEF kids
  <2>2. \A i \in DOMAIN kids : kids[i] \in Node(world)
    BY <2>1
  <2>3. \A i \in DOMAIN kids : f[i] \in Binds
    BY <1>3, <1>4, <2>2 DEF Bind, BindCall
  <2>4. DOMAIN f = DOMAIN kids /\ f = [i \in DOMAIN kids |-> f[i]]
    OBVIOUS
  <2> HIDE DEF f
  <2>5. f \in Seq(Binds)
    BY <2>1, <2>3, <2>4, Lists
  <2>6. QED
    BY <2>5 DEF f, kids
<1>6. references \in Seq(Binds)
  <2> DEFINE refs == S(n).refs
             f == [i \in DOMAIN refs |-> BindRef(refs[i], base, stack, draft)]
  <2>1. refs \in Seq(KeywordRef)
    BY <1>1, <1>2, Fields
  <2> HIDE DEF refs
  <2>2. \A i \in DOMAIN refs : refs[i] \in KeywordRef
    BY <2>1
  <2>3. \A i \in DOMAIN refs : f[i] \in Binds
    BY <1>3, <1>4, <2>2 DEF BindRef, BindRefCall
  <2>4. DOMAIN f = DOMAIN refs /\ f = [i \in DOMAIN refs |-> f[i]]
    OBVIOUS
  <2> HIDE DEF f
  <2>5. f \in Seq(Binds)
    BY <2>1, <2>3, <2>4, Lists
  <2>6. QED
    BY <2>5 DEF f, refs
<1>7. first \in Seq(Binds) /\ last \in Seq(Binds)
  BY <1>5
<1>8. IF S(n).fault = "shape" THEN Throw ELSE Then(new)
  BY DEF BindNode, n, draft, base, stack
<1> HIDE DEF first, last, references, Binds
<1>9. new \in Seq(Binds)
  BY <1>6, <1>7
<1> HIDE DEF new
<1>10. \A x \in Binds : x \in Calls(world) /\ x.call \in {"bind", "bindref"}
  BY DEF Binds, Calls, BindCall, BindRefCall
<1>11. new \in Seq(Calls(world)) /\ \A i \in DOMAIN new : new[i].call \in {"bind", "bindref"}
  BY <1>9, <1>10
<1>12. QED
  BY <1>8, <1>11

(* Binding a schema leaves what is known as it was. *)
LEMMA BindNodeStep ==
  ASSUME Running, BindNode
  PROVE  BInv'
<1>1. Call.call = "bind" /\ UNCHANGED << rm, loads, faults, cache, eval, seen, work >>
  BY DEF BindNode, At, Call
<1>2. ASSUME NEW new \in Seq(Calls(world)), Then(new), \A i \in DOMAIN new : new[i].call \in {"bind", "bindref"}
      PROVE  MayFollow(rm, new)
  BY <1>1, <1>2 DEF MayFollow, CallReady
<1>3. Throw \/ \E new \in Seq(Calls(world)) : Then(new) /\ MayFollow(rm, new)
  BY <1>2, BindsNext
<1>4. Call.call \notin Inner \cup {"settle"}
  BY <1>1 DEF Inner
<1>5. QED
  BY <1>1, <1>3, <1>4, StayStep

(* A reference that is resolved while binding, or the meta-schema. *)
LEMMA LearnStep ==
  ASSUME Running, Call.call \in {"bindref", "vocabularies"}, UNCHANGED << cache, eval, seen, work >>,
         NEW base \in Path, NEW stack, NEW draft \in Draft, NEW keywords, NEW ref \in RefTo(keywords),
         NEW got \in Resolutions(base, ref, stack, draft), Learn(got), Throw \/ Then(<< >>)
  PROVE  BInv'
<1>1. Call.call \notin Inner \cup {"settle"}
  BY DEF Inner
<1>2. << >> \in Seq(Calls(world)) /\ MayFollow(rm', << >>)
  <2> DEFINE m == rm'
  <2>1. << >> \in Seq(Calls(world)) /\ MayFollow(m, << >>)
    BY NoCalls
  <2>2. QED
    BY <2>1
<1>3. /\ WorldOK(world) /\ MapOK(world, rm) /\ ~rm.failed /\ Fetching(world, rm, loads)
      /\ faults \in 0 .. MaxFaults
  BY DEF Running, BInv
<1>4. /\ MapOK(world, got.rm) /\ ~got.rm.failed /\ Learned(world, rm, got.rm)
      /\ Fetching(world, got.rm, got.loads) /\ got.faults \in 0 .. MaxFaults
  BY <1>3, ResolutionsKeep
<1>5. rm' = got.rm /\ loads' = got.loads /\ faults' = got.faults
  BY DEF Learn
<1>6. Readied(world, got.rm, cache, eval, todo, 2)
  BY <1>4, StillReadied
<1>7. QED
  BY <1>1, <1>2, <1>4, <1>5, <1>6, OuterStep

(* A call that is done and leaves the map alone. *)
LEMMA DoneStep ==
  ASSUME Running, Call.call \notin Inner \cup {"settle"},
         UNCHANGED << rm, loads, faults, cache, eval, seen, work >>,
         Then(<< >>)
  PROVE  BInv'
  BY NoCalls, StayStep

(* buildBinding resolves a reference or returns an error. *)
LEMMA BindReferenceStep ==
  ASSUME Running, BindReference
  PROVE  BInv'
<1>1. Call.call = "bindref" /\ Call \in BindRefCall /\ UNCHANGED << cache, eval, seen, work >>
  BY FirstCall, CallKinds DEF BindReference, At, Call
<1>2. Call.base \in Path /\ Call.ref \in RefTo({"$ref", "$dynamicRef", "$recursiveRef"})
         /\ Call.draft \in Draft
  BY <1>1 DEF BindRefCall, KeywordRef
<1>3. CASE Call.ref.kw = "$recursiveRef"
  <2>1. Then(<< >>) /\ UNCHANGED << rm, loads, faults >>
    BY <1>3 DEF BindReference
  <2>2. QED
    BY <1>1, <2>1, DoneStep DEF Inner
<1>4. CASE Call.ref.kw # "$recursiveRef"
  <2>1. PICK got \in Resolutions(Call.base, Call.ref, Call.stack, Call.draft) :
          Learn(got) /\ (Throw \/ Then(<< >>))
    BY <1>4 DEF BindReference
  <2>2. QED
    BY <1>1, <1>2, <2>1, LearnStep
<1>5. QED
  BY <1>3, <1>4

(* The meta-schema is resolved, which may fetch it. *)
LEMMA VocabulariesStep ==
  ASSUME Running, Vocabularies
  PROVE  BInv'
<1>1. Call.call = "vocabularies" /\ UNCHANGED << cache, eval, seen, work >>
  BY DEF Vocabularies, At, Call
<1>2. << >> \in Path /\ world.meta \in RefTo({"$schema"}) /\ RootDraft \in Draft
  BY FirstCall, RootTyped DEF Path, WorldOK
<1>3. CASE world.meta.uri.path = << >>
  <2>1. Then(<< >>) /\ UNCHANGED << rm, loads, faults >>
    BY <1>3 DEF Vocabularies
  <2>2. QED
    BY <1>1, <2>1, DoneStep DEF Inner
<1>4. CASE world.meta.uri.path # << >>
  <2>1. PICK got \in Resolutions(<< >>, world.meta, {}, RootDraft) : Learn(got) /\ (Throw \/ Then(<< >>))
    BY <1>4 DEF Vocabularies
  <2>2. QED
    BY <1>1, <1>2, <2>1, LearnStep
<1>5. QED
  BY <1>3, <1>4

(* The resources of the map are scanned, in the order they were registered. *)
LEMMA ScanStep ==
  ASSUME Running, Scan
  PROVE  BInv'
<1>1. Call.call = "scan" /\ UNCHANGED << rm, loads, faults, cache, eval, seen, work >>
  BY DEF Scan, At, Call
<1> DEFINE list == rm.order
           new == [i \in DOMAIN list |-> [call |-> "resource", uri |-> list[i]]]
<1>2. Then(new)
  BY DEF Scan
<1>3. list \in Seq(Path) /\ ToSet(list) = DOMAIN rm.byURI
  BY DEF Running, BInv, MapOK, Listed
<1> HIDE DEF list
<1>4. \A i \in DOMAIN list : list[i] \in Path /\ list[i] \in DOMAIN rm.byURI
  BY <1>3 DEF ToSet
<1>5. /\ \A i \in DOMAIN list : new[i] \in ResourceCall /\ new[i].call = "resource" /\ new[i].uri = list[i]
      /\ DOMAIN new = DOMAIN list /\ new = [i \in DOMAIN list |-> new[i]]
  BY <1>4 DEF ResourceCall
<1> HIDE DEF new
<1>6. new \in Seq(Calls(world))
  <2>1. \A i \in DOMAIN list : new[i] \in Calls(world)
    BY <1>5 DEF Calls
  <2>2. QED
    BY <1>3, <1>5, <2>1, Lists
<1>7. MayFollow(rm, new)
  BY <1>1, <1>4, <1>5 DEF MayFollow, CallReady
<1>8. QED
  BY <1>1, <1>2, <1>6, <1>7, StayStep DEF Inner

(* The calls that build a target and record it. *)
LEMMA PrebuildTyped ==
  ASSUME Running, NEW id \in DOMAIN eval, NEW target \in Node(world),
         NEW new, new = Prebuild(id, target)
  PROVE  /\ new \in Seq(EnterCall(world) \cup {x \in SettleCall(world) : x.id \in DOMAIN eval})
         /\ Len(new) = 2 /\ new[2] = Settle(id, target)
<1>1. /\ eval[id] \in Evaluator(world) /\ DOMAIN eval \subseteq ID /\ MapOK(world, rm) /\ WorldOK(world)
  BY DEF Running, BInv, EvalOK
<1>2. /\ eval[id].key \in Path /\ eval[id].uri \in Path
      /\ eval[id].kw \in {"$ref", "$dynamicRef", "$recursiveRef"}
  BY <1>1 DEF Evaluator
<1>3. "dyn:" \in Token /\ "rec:" \in Token /\ target \in Token
  BY <1>1, AlphabetAssumption, Fields
<1>4. TargetKey(eval[id], target) \in Path
  <2>1. << "dyn:", target >> \in Path /\ << "rec:", target >> \in Path
    BY <1>3 DEF Path
  <2>2. QED
    BY <1>2, <2>1 DEF TargetKey
<1>5. TargetBase(target, eval[id].uri) \in Path
  <2>1. target \in DOMAIN rm.owner => rm.owner[target].uri \in Path
    BY <1>1 DEF MapOK, OwnersOK, ResourcesOK, Resource
  <2>2. QED
    BY <1>2, <2>1 DEF TargetBase
<1> DEFINE B == EnterCall(world) \cup {x \in SettleCall(world) : x.id \in DOMAIN eval}
           a == Enter(target, TargetKey(eval[id], target), TargetBase(target, eval[id].uri), TRUE)
           b == Settle(id, target)
<1>6. a \in EnterCall(world)
  BY <1>4, <1>5 DEF Enter, EnterCall
<1>7. b \in SettleCall(world) /\ b.id = id
  BY <1>1 DEF Settle, SettleCall
<1>8. a \in B /\ b \in B /\ new = << a, b >>
  BY <1>6, <1>7 DEF Prebuild
<1> HIDE DEF a, b, B
<1>9. new \in Seq(B) /\ Len(new) = 2 /\ new[2] = b
  BY <1>8
<1>10. QED
  BY <1>9 DEF b, B

(* The calls that build targets and record them. *)
Settled(e, w) == EnterCall(w) \cup {x \in SettleCall(w) : x.id \in DOMAIN e}

\* Each of the targets has the call that records it.
Recorded(new, ids, target) == \A i \in DOMAIN ids : \E k \in DOMAIN new : new[k] = Settle(ids[i], target[i])

(* The calls that build a list of targets are typed, and each target has the call
   that records it. *)
LEMMA PrebuildsTyped ==
  ASSUME Running, NEW ids \in Seq(DOMAIN eval), NEW target, \A i \in DOMAIN ids : target[i] \in Node(world),
         NEW new, new = FlattenSeq([i \in DOMAIN ids |-> Prebuild(ids[i], target[i])])
  PROVE  new \in Seq(Settled(eval, world)) /\ Recorded(new, ids, target)
<1> DEFINE B == Settled(eval, world)
           f == [i \in DOMAIN ids |-> Prebuild(ids[i], target[i])]
<1>1. ASSUME NEW i \in DOMAIN ids
      PROVE  f[i] \in Seq(B) /\ Len(f[i]) = 2 /\ f[i][2] = Settle(ids[i], target[i])
  <2>1. ids[i] \in DOMAIN eval /\ target[i] \in Node(world) /\ f[i] = Prebuild(ids[i], target[i])
    OBVIOUS
  <2> HIDE DEF f
  <2>2. QED
    BY <2>1, PrebuildTyped DEF Settled
<1>2. DOMAIN f = DOMAIN ids /\ f = [i \in DOMAIN ids |-> f[i]]
  OBVIOUS
<1>3. new = FlattenSeq(f)
  OBVIOUS
<1> HIDE DEF f, B
<1>4. f \in Seq(Seq(B)) /\ Len(f) = Len(ids)
  <2> DEFINE C == Seq(B)
  <2>1. \A i \in DOMAIN ids : f[i] \in C
    BY <1>1
  <2> HIDE DEF C
  <2>2. f \in Seq(C) /\ Len(f) = Len(ids)
    BY <1>2, <2>1, Lists
  <2>3. QED
    BY <2>2 DEF C
<1>5. new \in Seq(B)
  BY <1>3, <1>4, FlattenElements
<1>6. ASSUME NEW i \in DOMAIN ids PROVE \E k \in DOMAIN new : new[k] = Settle(ids[i], target[i])
  <2>1. i \in 1 .. Len(f)
    BY <1>4
  <2>2. 2 \in 1 .. Len(f[i]) /\ f[i][2] = Settle(ids[i], target[i])
    BY <1>1
  <2>3. \E k \in 1 .. Len(FlattenSeq(f)) : FlattenSeq(f)[k] = f[i][2]
    BY <1>4, <2>1, <2>2, FlattenAll
  <2>4. DOMAIN new = 1 .. Len(new)
    BY <1>5
  <2>5. QED
    BY <1>3, <2>2, <2>3, <2>4
<1>7. QED
  BY <1>5, <1>6 DEF B, Recorded

(* Calls that build targets may follow a step that is no part of a build. *)
LEMMA SettledMayFollow ==
  ASSUME Running, NEW new \in Seq(Settled(eval, world)), Call.call # "seed"
  PROVE  new \in Seq(Calls(world)) /\ MayFollow(rm, new)
<1>1. \A x \in Settled(eval, world) :
         x \in Calls(world) /\ x.call \in {"enter", "settle"} /\ (x.call = "settle" => x.id \in DOMAIN eval)
  BY DEF Settled, Calls, EnterCall, SettleCall
<1> DEFINE B == Settled(eval, world)
<1> HIDE DEF B
<1>2. new \in Seq(B) /\ \A x \in B : x \in Calls(world)
  BY <1>1 DEF B
<1>3. new \in Seq(Calls(world)) /\ \A i \in DOMAIN new : new[i] \in B
  BY <1>2
<1>4. \A i \in DOMAIN new : new[i].call \in {"enter", "settle"}
                               /\ (new[i].call = "settle" => new[i].id \in DOMAIN eval)
  BY <1>1, <1>3 DEF B
<1>5. QED
  BY <1>3, <1>4 DEF MayFollow, CallReady

(* Filtering a list of references leaves references. *)
LEMMA ThoseTyped ==
  ASSUME NEW A, NEW s \in Seq(A), NEW T, NEW k, k = Those(s, T)
  PROVE  k \in Seq(A) /\ \A i \in DOMAIN k : k[i] \in A /\ k[i] \in T
<1>1. k \in Seq(A \cap T)
  BY ThoseElements
<1>2. QED
  BY <1>1

(* What the dynamic scope could select in a resource is to be built and recorded. *)
LEMMA ScanResourceStep ==
  ASSUME Running, ScanResource
  PROVE  BInv'
<1>1. /\ Call.call = "resource" /\ UNCHANGED << rm, loads, faults, cache, eval, seen, work >>
      /\ Call.uri \in DOMAIN rm.byURI
  BY FirstCall DEF ScanResource, At, Call, CallReady
<1>2. MapOK(world, rm) /\ work \in Seq(DOMAIN eval)
  BY DEF Running, BInv
<1> DEFINE r == rm.byURI[Call.uri]
           data == rm.reg[r]
           D == {id \in DOMAIN eval : eval[id].kw = "$dynamicRef" /\ eval[id].name \in DOMAIN data.dynamic}
           R == {id \in DOMAIN eval : eval[id].kw = "$recursiveRef" /\ data.recursive}
           dynamic == Those(work, D)
           recursive == Those(work, R)
           first == FlattenSeq([i \in DOMAIN dynamic |->
                                  Prebuild(dynamic[i], data.dynamic[eval[dynamic[i]].name])])
           last == FlattenSeq([i \in DOMAIN recursive |-> Prebuild(recursive[i], r.root)])
<1>3. Then(first \o last)
  BY DEF ScanResource
<1>4. r \in DOMAIN rm.reg
  BY <1>1, <1>2 DEF MapOK, UrisOK
<1>5. r.root \in Node(world) /\ \A x \in DOMAIN data.dynamic : data.dynamic[x] \in Node(world)
  BY <1>2, <1>4 DEF MapOK, ResourcesOK, DataOK, Resource
<1>6. dynamic \in Seq(DOMAIN eval) /\ \A i \in DOMAIN dynamic : dynamic[i] \in D
  <2> HIDE DEF D
  <2>1. QED
    BY <1>2, ThoseTyped
<1>7. recursive \in Seq(DOMAIN eval)
  <2> HIDE DEF R
  <2>1. QED
    BY <1>2, ThoseTyped
<1> DEFINE B == Settled(eval, world)
<1>8. first \in Seq(B)
  <2> DEFINE target == [i \in DOMAIN dynamic |-> data.dynamic[eval[dynamic[i]].name]]
             new == FlattenSeq([i \in DOMAIN dynamic |-> Prebuild(dynamic[i], target[i])])
  <2>1. \A i \in DOMAIN dynamic : target[i] \in Node(world)
    BY <1>5, <1>6
  <2>2. first = new
    <3> HIDE DEF dynamic, data
    <3>1. \A i \in DOMAIN dynamic : target[i] = data.dynamic[eval[dynamic[i]].name]
      OBVIOUS
    <3> HIDE DEF target
    <3>2. [i \in DOMAIN dynamic |-> Prebuild(dynamic[i], data.dynamic[eval[dynamic[i]].name])]
             = [i \in DOMAIN dynamic |-> Prebuild(dynamic[i], target[i])]
      BY <3>1
    <3>3. QED
      BY <3>2
  <2> HIDE DEF dynamic, data, target, first
  <2>3. new \in Seq(B)
    BY <1>6, <2>1, PrebuildsTyped
  <2>4. QED
    BY <2>2, <2>3
<1>9. last \in Seq(B)
  <2> DEFINE target == [i \in DOMAIN recursive |-> r.root]
             new == FlattenSeq([i \in DOMAIN recursive |-> Prebuild(recursive[i], target[i])])
  <2>1. \A i \in DOMAIN recursive : target[i] \in Node(world) /\ target[i] = r.root
    BY <1>5
  <2>2. last = new
    <3> HIDE DEF recursive, target, r
    <3>2. [i \in DOMAIN recursive |-> Prebuild(recursive[i], r.root)]
             = [i \in DOMAIN recursive |-> Prebuild(recursive[i], target[i])]
      BY <2>1
    <3>3. QED
      BY <3>2
  <2> HIDE DEF recursive, r, target, last
  <2>3. new \in Seq(B)
    BY <1>7, <2>1, PrebuildsTyped
  <2>4. QED
    BY <2>2, <2>3
<1> HIDE DEF first, last, B
<1>10. first \o last \in Seq(B)
  BY <1>8, <1>9
<1>11. first \o last \in Seq(Calls(world)) /\ MayFollow(rm, first \o last)
  <2> DEFINE new == first \o last
  <2>1. new \in Seq(Settled(eval, world))
    BY <1>10 DEF B
  <2> HIDE DEF new
  <2>2. new \in Seq(Calls(world)) /\ MayFollow(rm, new)
    BY <1>1, <2>1, SettledMayFollow
  <2>3. QED
    BY <2>2 DEF new
<1>12. QED
  BY <1>1, <1>3, <1>11, StayStep DEF Inner

(* A subschema is visited: every target its references have is to be built and
   recorded. *)
LEMMA BuildTargetsStep ==
  ASSUME Running, BuildTargets
  PROVE  BInv'
<1>1. /\ Call.call = "targets" /\ UNCHANGED << rm, cache, eval, loads, faults >>
      /\ seen' = seen \cup {Call.key} /\ Call.key \in DOMAIN cache
  BY FirstCall DEF BuildTargets, At, Call, CallReady
<1>2. /\ WorldOK(world) /\ MapOK(world, rm) /\ ~rm.failed /\ Fetching(world, rm, loads)
      /\ EvalOK(world, eval) /\ CacheOK(world, cache, eval) /\ work \in Seq(DOMAIN eval)
      /\ faults \in 0 .. MaxFaults /\ SeenOK(world, cache, eval, todo, seen)
      /\ EndOK(cache, todo, seen, outcome)
  BY DEF Running, BInv
<1> DEFINE key == Call.key
           refs == S(cache[key].node).refs
           list == [i \in DOMAIN refs |-> << key, i >>]
           T == {id \in DOMAIN eval : eval[id].target # None}
           W == {id \in DOMAIN eval : eval[id].kw # "$ref"}
           ids == Those(list, DOMAIN eval)
           known == Those(ids, T)
           new == FlattenSeq([i \in DOMAIN known |-> Prebuild(known[i], eval[known[i]].target)])
<1>3. Then(new) /\ work' = work \o Those(ids, W)
  BY DEF BuildTargets
<1>4. refs \in Seq(KeywordRef) /\ refs = world.schema[cache[key].node].refs
  <2>1. cache[key].node \in Node(world)
    BY <1>1, <1>2 DEF CacheOK, Subschema
  <2>2. QED
    BY <1>2, <2>1, Fields DEF S
<1> HIDE DEF refs, T, W, key
<1> DEFINE A == {<< key, i >> : i \in DOMAIN refs}
<1>5. list \in Seq(A) /\ Len(list) = Len(refs) /\ DOMAIN list = DOMAIN refs
      /\ \A i \in DOMAIN refs : list[i] = << key, i >>
  <2>1. DOMAIN list = DOMAIN refs /\ list = [i \in DOMAIN refs |-> list[i]]
        /\ \A i \in DOMAIN refs : list[i] = << key, i >>
    OBVIOUS
  <2>2. \A i \in DOMAIN refs : list[i] \in A
    BY <2>1
  <2>0. refs \in Seq(KeywordRef)
    BY <1>4
  <2> HIDE DEF list, A
  <2>3. list \in Seq(A) /\ Len(list) = Len(refs)
    <3>1. DOMAIN list = DOMAIN refs
      BY <2>1
    <3>2. list = [i \in DOMAIN refs |-> list[i]]
      BY <2>1
    <3>3. QED
      BY ONLY <2>0, <2>2, <3>1, <3>2, Lists
  <2>4. QED
    BY <2>1, <2>3
<1> HIDE DEF list, A
<1>6. ids \in Seq(A) /\ \A i \in DOMAIN ids : ids[i] \in DOMAIN eval
  BY <1>5, ThoseTyped
<1>7. ids \in Seq(DOMAIN eval)
  BY <1>6
<1> HIDE DEF ids
<1>8. known \in Seq(DOMAIN eval) /\ \A i \in DOMAIN known : known[i] \in T
  BY <1>7, ThoseTyped
<1>9. Those(ids, W) \in Seq(DOMAIN eval)
  BY <1>7, ThoseTyped
<1>10. work' \in Seq(DOMAIN eval')
  <2> DEFINE more == Those(ids, W)
             E == DOMAIN eval
  <2>1. work \in Seq(E) /\ more \in Seq(E) /\ work' = work \o more
    BY <1>2, <1>3, <1>9
  <2> HIDE DEF more, E
  <2>2. work' \in Seq(E)
    BY <2>1
  <2>3. QED
    BY <1>1, <2>2 DEF E
<1> HIDE DEF known
<1> DEFINE target == [i \in DOMAIN known |-> eval[known[i]].target]
<1>11. \A i \in DOMAIN known : target[i] \in Node(world) /\ target[i] = eval[known[i]].target
  BY <1>2, <1>8 DEF T, EvalOK, Evaluator
<1>12. new = FlattenSeq([i \in DOMAIN known |-> Prebuild(known[i], target[i])])
  <2> HIDE DEF target
  <2>1. [i \in DOMAIN known |-> Prebuild(known[i], eval[known[i]].target)]
          = [i \in DOMAIN known |-> Prebuild(known[i], target[i])]
    BY <1>11
  <2>2. QED
    BY <2>1
<1> HIDE DEF new, target
<1>13. /\ new \in Seq(Settled(eval, world))
       /\ \A i \in DOMAIN known : \E k \in DOMAIN new : new[k] = Settle(known[i], target[i])
  <2>1. known \in Seq(DOMAIN eval)
    BY <1>8
  <2>2. \A i \in DOMAIN known : target[i] \in Node(world)
    BY <1>11
  <2> DEFINE made == FlattenSeq([i \in DOMAIN known |-> Prebuild(known[i], target[i])])
  <2>3. made \in Seq(Settled(eval, world)) /\ Recorded(made, known, target)
    BY <2>1, <2>2, PrebuildsTyped
  <2> HIDE DEF made
  <2>4. new = made
    BY <1>12 DEF made
  <2>5. QED
    BY <2>3, <2>4 DEF Recorded
<1>14. new \in Seq(Calls(world)) /\ MayFollow(rm, new)
  BY <1>1, <1>13, SettledMayFollow
<1>15. /\ TodoOK(world, rm, cache, eval, todo') /\ SettlesKept(todo, todo')
       /\ outcome' # "compiled" /\ (outcome' # "running" => todo' = << >>)
  <2>1. Readied(world, rm, cache, eval, todo, 2)
    BY StillReadied, LearnedNothing
  <2>2. QED
    BY <1>1, <1>3, <1>14, <2>1, OuterCalls DEF Inner
<1>16. ASSUME NEW i \in DOMAIN refs, << key, i >> \in DOMAIN eval, eval[<< key, i >>].target # None
       PROVE  \E x \in DOMAIN todo' : todo'[x] = Settle(<< key, i >>, eval[<< key, i >>].target)
  <2> DEFINE id == << key, i >>
  <2>1. i \in 1 .. Len(list) /\ list[i] = id /\ id \in DOMAIN eval /\ id \in T
    <3>1. i \in 1 .. Len(list)
      BY <1>4, <1>5
    <3>2. QED
      BY <1>5, <1>16, <3>1 DEF T
  <2> HIDE DEF id
  <2>2. PICK j \in 1 .. Len(ids) : ids[j] = id
    BY <1>5, <2>1, ThoseAll DEF ids
  <2>3. PICK k \in 1 .. Len(known) : known[k] = id
    BY <1>7, <2>1, <2>2, ThoseAll DEF known
  <2>4. k \in DOMAIN known /\ target[k] = eval[id].target
    BY <1>8, <1>11, <2>3
  <2>5. PICK x \in DOMAIN new : new[x] = Settle(id, eval[id].target)
    BY <1>13, <2>3, <2>4
  <2>6. todo' = new \o Tail(todo) /\ todo \in Seq(Calls(world)) /\ todo # << >>
    BY <1>3, FirstCall DEF Then, Running
  <2>7. PushedOn(new \o Tail(todo), new, todo)
    BY <1>14, <2>6, Stacked
  <2>8. x \in DOMAIN todo' /\ todo'[x] = new[x]
    BY <2>6, <2>7 DEF PushedOn
  <2>9. QED
    BY <2>5, <2>8 DEF id
<1>17. SeenOK(world, cache, eval, todo', seen')
  <2> DEFINE p == todo'
  <2>1. SettlesKept(todo, p)
    BY <1>15
  <2>2. \A i \in DOMAIN refs : (<< key, i >> \in DOMAIN eval /\ eval[<< key, i >>].target # None) =>
           \E x \in DOMAIN p : p[x] = Settle(<< key, i >>, eval[<< key, i >>].target)
    BY <1>16
  <2> HIDE DEF p
  <2>3. SeenOK(world, cache, eval, p, seen)
    BY <2>1, StillSeen
  <2>4. seen' = seen \cup {key} /\ key \in DOMAIN cache
    BY <1>1 DEF key
  <2>5. SeenOK(world, cache, eval, p, seen \cup {key})
    BY <1>4, <2>2, <2>3, <2>4 DEF SeenOK
  <2>6. QED
    BY <2>4, <2>5 DEF p
<1>18. EndOK(cache', todo', seen', outcome')
  BY <1>15 DEF EndOK
<1>19. /\ rm' = rm /\ cache' = cache /\ eval' = eval /\ loads' = loads /\ faults' = faults
  BY <1>1
<1>20. QED
  BY <1>2, <1>10, <1>15, <1>17, <1>18, <1>19, Assembled DEF Running

(* A round visits the subschemas that are new; without any the compilation ends. *)
LEMMA RoundStep ==
  ASSUME Running, Round
  PROVE  BInv'
<1>1. Call.call = "round" /\ UNCHANGED << rm, cache, eval, seen, work, loads, faults >>
  BY DEF Round, At, Call
<1>2. /\ WorldOK(world) /\ MapOK(world, rm) /\ ~rm.failed /\ Fetching(world, rm, loads)
      /\ EvalOK(world, eval) /\ CacheOK(world, cache, eval) /\ work \in Seq(DOMAIN eval)
      /\ faults \in 0 .. MaxFaults /\ SeenOK(world, cache, eval, todo, seen)
      /\ TodoOK(world, rm, cache, eval, todo)
  BY DEF Running, BInv
<1>3. /\ todo \in Seq(Calls(world)) /\ Call = todo[1] /\ Call = Head(todo) /\ DOMAIN todo = 1 .. Len(todo)
      /\ Len(todo) \in Nat /\ Len(todo) > 0 /\ todo # << >> /\ outcome = "running"
  BY FirstCall DEF Running, Call
<1>4. Len(todo) = 1
  <2> SUFFICES ASSUME Len(todo) # 1 PROVE FALSE
    OBVIOUS
  <2>1. 2 \in DOMAIN todo /\ 1 \in 1 .. 2 - 1
    BY <1>3
  <2>2. InOrder(todo[1], todo[2])
    BY <1>2, <2>1 DEF TodoOK, Ordered
  <2>3. QED
    BY <1>1, <1>3, <2>2 DEF InOrder
<1> DEFINE pending == Sorted(Pending)
<1>5. pending \in Seq(Pending) /\ (pending = << >> => Pending = {})
  <2>1. Pending \subseteq DOMAIN cache /\ DOMAIN cache \subseteq Path /\ IsFiniteSet(DOMAIN cache)
    BY <1>2 DEF CacheOK, Pending
  <2>2. IsFiniteSet(Pending)
    BY <2>1, FS_Subset
  <2>3. QED
    BY <2>1, <2>2, SortedElements
<1>6. /\ SettlesKept(todo, todo') /\ TodoOK(world, rm, cache, eval, todo')
      /\ EndOK(cache, todo', seen, outcome')
  <2>1. \A x \in DOMAIN todo : todo[x].call # "settle"
    <3>1. \A x \in DOMAIN todo : x = 1
      BY <1>3, <1>4
    <3>2. QED
      BY <1>1, <1>3, <3>1
  <2>2. SettlesKept(todo, todo')
    BY <2>1 DEF SettlesKept
  <2>3. CASE pending = << >>
    <3>1. todo' = << >> /\ outcome' = "compiled"
      BY <2>3 DEF Round
    <3>2. TodoOK(world, rm, cache, eval, << >>)
      BY DEF TodoOK, Ordered
    <3>3. DOMAIN cache \subseteq seen
      BY <1>5, <2>3 DEF Pending
    <3>4. QED
      BY <2>2, <3>1, <3>2, <3>3 DEF EndOK
  <2>4. CASE pending # << >>
    <3> DEFINE visits == [i \in DOMAIN pending |-> [call |-> "targets", key |-> pending[i]]]
               rest == << Just("scan"), Just("round") >>
               new == visits \o rest
    <3>1. todo' = visits \o rest /\ outcome' = outcome
      BY <2>4 DEF Round
    <3> HIDE DEF pending
    <3>2. \A i \in DOMAIN pending : pending[i] \in DOMAIN cache /\ pending[i] \in Path
      BY <1>2, <1>5 DEF Pending, CacheOK
    <3>3. /\ visits \in Seq(Calls(world)) /\ DOMAIN visits = DOMAIN pending
          /\ \A i \in DOMAIN pending : visits[i].call = "targets" /\ visits[i].key \in DOMAIN cache
      <4>1. /\ DOMAIN visits = DOMAIN pending /\ visits = [i \in DOMAIN pending |-> visits[i]]
            /\ \A i \in DOMAIN pending : visits[i] = [call |-> "targets", key |-> pending[i]]
        OBVIOUS
      <4> HIDE DEF visits
      <4>2. \A i \in DOMAIN pending : visits[i] \in Calls(world)
        BY <3>2, <4>1 DEF Calls, TargetsCall
      <4>3. visits \in Seq(Calls(world))
        BY <1>5, <4>1, <4>2, Lists
      <4>4. QED
        BY <3>2, <4>1, <4>3
    <3>4. /\ rest \in Seq(Calls(world)) /\ Len(rest) = 2
          /\ rest[1].call = "scan" /\ rest[2].call = "round"
      <4>1. Just("scan") \in Calls(world) /\ Just("round") \in Calls(world)
        BY DEF Just, Calls, PlainCall
      <4>2. QED
        BY <4>1 DEF Just
    <3> HIDE DEF visits, rest
    <3>5. /\ new \in Seq(Calls(world)) /\ Len(new) = Len(visits) + 2
          /\ \A i \in 1 .. Len(visits) : new[i] = visits[i]
          /\ new[Len(visits) + 1] = rest[1] /\ new[Len(visits) + 2] = rest[2]
      <4> DEFINE C == Calls(world)
      <4>1. visits \in Seq(C) /\ rest \in Seq(C)
        BY <3>3, <3>4
      <4> HIDE DEF C
      <4>2. /\ visits \o rest \in Seq(C) /\ Len(visits \o rest) = Len(visits) + Len(rest)
            /\ \A k \in 1 .. Len(visits) : (visits \o rest)[k] = visits[k]
            /\ \A k \in 1 .. Len(rest) : (visits \o rest)[Len(visits) + k] = rest[k]
        BY <4>1, ConcatIndices
      <4>3. 1 \in 1 .. Len(rest) /\ 2 \in 1 .. Len(rest) /\ Len(rest) = 2
        BY <3>4
      <4>4. QED
        BY <4>2, <4>3 DEF C
    <3>6. Len(visits) \in Nat /\ DOMAIN visits = 1 .. Len(visits) /\ DOMAIN new = 1 .. Len(visits) + 2
      BY <3>3, <3>5
    <3> HIDE DEF new
    <3>7. ASSUME NEW i \in DOMAIN new
          PROVE  /\ new[i].call \in {"targets", "scan", "round"} /\ CallReady(world, rm, cache, eval, new[i])
                 /\ new[i].call = "round" => i = Len(visits) + 2
      <4>1. CASE i \in 1 .. Len(visits)
        BY <3>3, <3>5, <3>6, <4>1 DEF CallReady
      <4>2. CASE i = Len(visits) + 1
        BY <3>4, <3>5, <4>2 DEF CallReady
      <4>3. CASE i = Len(visits) + 2
        BY <3>4, <3>5, <4>3 DEF CallReady
      <4>4. QED
        BY <3>6, <4>1, <4>2, <4>3
    <3>8. Tail(todo) = << >> /\ new \o Tail(todo) = new
      <4> DEFINE C == Calls(world)
      <4>1. todo \in Seq(C) /\ Len(todo) = 1 /\ new \in Seq(C)
        BY <1>3, <1>4, <3>5
      <4> HIDE DEF C
      <4>2. Tail(todo) \in Seq(C) /\ Len(Tail(todo)) = 0
        BY <4>1
      <4>3. Tail(todo) = << >>
        BY <4>2, EmptySeq
      <4>4. new \o << >> = new
        BY <4>1
      <4>5. QED
        BY <4>3, <4>4
    <3>9. TodoOK(world, rm, cache, eval, new \o Tail(todo))
      <4>1. /\ \A i \in DOMAIN new : new[i].call \notin {"seed", "walk", "resolve", "promote"}
            /\ \A i \in DOMAIN new : new[i].call = "round" => i = Len(new) /\ Len(todo) = 1
            /\ \A i \in DOMAIN new : CallReady(world, rm, cache, eval, new[i])
            /\ \A j \in 2 .. Len(todo) : CallReady(world, rm, cache, eval, todo[j])
        BY <1>4, <3>5, <3>7
      <4>2. Head(todo).call \notin Inner /\ Head(todo).call # "seed"
        BY <1>1, <1>3 DEF Inner
      <4>3. QED
        BY <1>2, <1>3, <3>5, <4>1, <4>2, OuterPush
    <3>10. TodoOK(world, rm, cache, eval, todo')
      BY <3>1, <3>8, <3>9 DEF new
    <3>11. EndOK(cache, todo', seen, outcome')
      BY <1>3, <3>1 DEF EndOK
    <3>12. QED
      BY <2>2, <3>10, <3>11
  <2>5. QED
    BY <2>3, <2>4
<1>7. SeenOK(world, cache, eval, todo', seen)
  <2> DEFINE p == todo'
  <2>1. SettlesKept(todo, p)
    BY <1>6
  <2> HIDE DEF p
  <2>2. SeenOK(world, cache, eval, p, seen)
    BY <2>1, StillSeen
  <2>3. QED
    BY <2>2 DEF p
<1>8. /\ rm' = rm /\ cache' = cache /\ eval' = eval /\ loads' = loads /\ faults' = faults
      /\ seen' = seen /\ work' = work
  BY <1>1
<1>9. QED
  BY <1>2, <1>6, <1>7, <1>8, Assembled DEF Running

(* A target is recorded as built or as impossible to build. *)
LEMMA SettleTargetStep ==
  ASSUME Running, SettleTarget
  PROVE  BInv'
<1>1. /\ Call.call = "settle" /\ UNCHANGED << rm, cache, seen, work, loads, faults >> /\ Then(<< >>)
      /\ Call \in SettleCall(world) /\ Call.id \in DOMAIN eval
  BY FirstCall, CallKinds DEF SettleTarget, At, Call, CallReady
<1>2. /\ WorldOK(world) /\ MapOK(world, rm) /\ ~rm.failed /\ Fetching(world, rm, loads)
      /\ EvalOK(world, eval) /\ CacheOK(world, cache, eval) /\ work \in Seq(DOMAIN eval)
      /\ faults \in 0 .. MaxFaults /\ SeenOK(world, cache, eval, todo, seen)
      /\ TodoOK(world, rm, cache, eval, todo)
  BY DEF Running, BInv
<1>3. /\ todo \in Seq(Calls(world)) /\ Call = todo[1] /\ Call = Head(todo) /\ todo # << >>
      /\ DOMAIN todo = 1 .. Len(todo) /\ outcome = "running"
  BY FirstCall DEF Running, Call
<1> DEFINE id == Call.id
           target == Call.target
           old == eval[id]
           new == eval'[id]
           more == [old EXCEPT !.built = old.built \cup {target}]
           less == [old EXCEPT !.failed = old.failed \cup {target}]
<1>4. target \in Node(world)
  BY <1>1 DEF SettleCall
<1>5. old \in Evaluator(world)
  BY <1>1, <1>2 DEF EvalOK
<1>6. /\ eval' = [eval EXCEPT ![id] = IF TargetKey(old, target) \in DOMAIN cache THEN more ELSE less]
      /\ DOMAIN eval' = DOMAIN eval /\ new \in {more, less}
      /\ \A x \in DOMAIN eval : x # id => eval'[x] = eval[x]
  BY <1>1 DEF SettleTarget
<1>7. /\ more \in Evaluator(world) /\ more.target = old.target /\ more.built = old.built \cup {target}
      /\ more.failed = old.failed
      /\ less \in Evaluator(world) /\ less.target = old.target /\ less.failed = old.failed \cup {target}
      /\ less.built = old.built
  <2> HIDE DEF old, target
  <2>1. QED
    BY <1>4, <1>5 DEF Evaluator
<1> HIDE DEF more, less
<1>8. /\ new \in Evaluator(world) /\ new.target = old.target
      /\ new.built \cup new.failed = old.built \cup old.failed \cup {target}
  BY <1>6, <1>7
<1>9. EvalOK(world, eval')
  BY <1>2, <1>6, <1>8 DEF EvalOK
<1>10. CacheOK(world, cache, eval') /\ work \in Seq(DOMAIN eval')
  BY <1>2, <1>6 DEF CacheOK
<1>11. todo' = << >> \o Tail(todo) /\ outcome' = outcome
  BY <1>1 DEF Then
<1> DEFINE e2 == eval'
<1>12. DOMAIN e2 = DOMAIN eval
  BY <1>6
<1>13. TodoOK(world, rm, cache, eval', todo')
  <2> HIDE DEF e2
  <2>1. \A j \in 2 .. Len(todo) : todo[j].call = "promote" => todo[j].key \notin DOMAIN cache
    BY <1>2, <1>3 DEF TodoOK, CallReady
  <2>2. \A j \in 2 .. Len(todo) : CallReady(world, rm, cache, e2, todo[j])
    BY <1>2, <1>12, <2>1, TailReady, LearnedNothing
  <2>3. << >> \in Seq(Calls(world)) /\ DOMAIN << >> = {}
    OBVIOUS
  <2>4. TodoOK(world, rm, cache, e2, << >> \o Tail(todo))
    <3> DEFINE none == << >>
    <3>1. none \in Seq(Calls(world)) /\ \A i \in DOMAIN none : FALSE
      BY <2>3
    <3>2. none = << >> /\ Head(todo).call \notin Inner
      BY <1>1, <1>3 DEF Inner
    <3> HIDE DEF none
    <3>3. /\ \A i \in DOMAIN none : none[i].call \notin {"seed", "walk", "resolve", "promote"}
          /\ \A i \in DOMAIN none : none[i].call = "round" => i = Len(none) /\ Len(todo) = 1
          /\ \A i \in DOMAIN none : CallReady(world, rm, cache, e2, none[i])
          /\ none = << >> \/ Head(todo).call # "seed"
      BY <3>1, <3>2
    <3>4. TodoOK(world, rm, cache, e2, none \o Tail(todo))
      BY <1>2, <1>3, <2>2, <3>1, <3>2, <3>3, OuterPush
    <3>5. QED
      BY <3>4 DEF none
  <2>5. QED
    BY <1>11, <2>4 DEF e2
<1>14. \A x \in 2 .. Len(todo) : \E y \in DOMAIN todo' : todo'[y] = todo[x]
  <2>1. PushedOn(<< >> \o Tail(todo), << >>, todo)
    <3> DEFINE none == << >>
    <3>1. none \in Seq(Calls(world))
      OBVIOUS
    <3> HIDE DEF none
    <3>2. PushedOn(none \o Tail(todo), none, todo)
      BY <1>3, <3>1, Stacked
    <3>3. QED
      BY <3>2 DEF none
  <2>2. QED
    BY <1>11, <2>1 DEF PushedOn
<1>15. ASSUME NEW k \in seen, NEW i \in DOMAIN world.schema[cache[k].node].refs,
              << k, i >> \in DOMAIN eval', eval'[<< k, i >>].target # None
       PROVE  \/ eval'[<< k, i >>].target \in eval'[<< k, i >>].built \cup eval'[<< k, i >>].failed
              \/ \E x \in DOMAIN todo' : todo'[x] = Settle(<< k, i >>, eval'[<< k, i >>].target)
  <2> DEFINE it == << k, i >>
  <2>1. it \in DOMAIN eval /\ eval'[it].target = eval[it].target
        /\ eval[it].built \cup eval[it].failed \subseteq eval'[it].built \cup eval'[it].failed
    BY <1>6, <1>8, <1>15
  <2>2. \/ eval[it].target \in eval[it].built \cup eval[it].failed
        \/ \E x \in DOMAIN todo : todo[x] = Settle(it, eval[it].target)
    BY <1>2, <1>15, <2>1 DEF SeenOK
  <2>3. CASE eval[it].target \in eval[it].built \cup eval[it].failed
    BY <2>1, <2>3
  <2>4. ASSUME NEW x \in DOMAIN todo, todo[x] = Settle(it, eval[it].target)
        PROVE  \/ eval'[it].target \in eval'[it].built \cup eval'[it].failed
               \/ \E y \in DOMAIN todo' : todo'[y] = Settle(it, eval'[it].target)
    <3>1. CASE x = 1
      <4>1. id = it /\ target = eval[it].target
        BY <1>3, <2>4, <3>1 DEF Settle
      <4>2. QED
        BY <1>8, <2>1, <4>1
    <3>2. CASE x # 1
      <4>1. x \in 2 .. Len(todo)
        BY <1>3, <3>2
      <4>2. QED
        BY <1>14, <2>1, <2>4, <4>1
    <3>3. QED
      BY <3>1, <3>2
  <2>5. QED
    BY <2>2, <2>3, <2>4
<1>16. SeenOK(world, cache, eval', todo', seen)
  BY <1>2, <1>15 DEF SeenOK
<1>17. EndOK(cache, todo', seen, outcome')
  BY <1>3, <1>11 DEF EndOK
<1>18. /\ rm' = rm /\ cache' = cache /\ loads' = loads /\ faults' = faults /\ seen' = seen /\ work' = work
  BY <1>1
<1>19. QED
  BY <1>2, <1>9, <1>10, <1>13, <1>16, <1>17, <1>18, Assembled DEF Running

-----------------------------------------------------------------------------
(* Building subschemas *)

(* The calls after one that is part of the building of a subschema and is done:
   it was the building of a subschema that is known or being built, a reference
   that has its evaluator if it must have one, or the end of the building. *)
LEMMA InnerDone ==
  ASSUME Running, Call.call \in Inner, NEW m, Learned(world, rm, m), NEW c2, DOMAIN cache \subseteq DOMAIN c2,
         NEW e2, DOMAIN eval \subseteq DOMAIN e2,
         \A k \in DOMAIN c2 : k \in DOMAIN cache \/ (Call.call = "promote" /\ k = Call.key),
         Call.call = "enter" => Call.key \in DOMAIN cache \/ InFlight(Call.key),
         Call.call = "promote" => Call.key \in DOMAIN c2,
         Call.call = "resolve" => Call.id \in DOMAIN e2 \/ Call.ref.kw # "$ref",
         NEW p, p = Tail(todo)
  PROVE  TodoOK(world, m, c2, e2, p) /\ SettlesKept(todo, p)
<1>1. WorldOK(world) /\ TodoOK(world, rm, cache, eval, todo)
  BY DEF Running, BInv
<1>2. /\ todo \in Seq(Calls(world)) /\ Call = todo[1] /\ Call = Head(todo) /\ todo # << >>
      /\ DOMAIN todo = 1 .. Len(todo) /\ Len(todo) \in Nat /\ Len(todo) > 0
      /\ Call \in Calls(world)
  BY FirstCall DEF Running, Call
<1>3. /\ p \in Seq(Calls(world)) /\ Len(p) = Len(todo) - 1 /\ DOMAIN p = 1 .. Len(p) /\ Len(p) \in Nat
      /\ \A i \in DOMAIN p : p[i] = todo[i + 1]
  <2> DEFINE C == Calls(world)
  <2>1. todo \in Seq(C) /\ todo # << >>
    BY <1>2
  <2> HIDE DEF C
  <2>2. /\ p \in Seq(C) /\ Len(p) = Len(todo) - 1 /\ DOMAIN p = 1 .. Len(p) /\ Len(p) \in Nat
        /\ \A i \in DOMAIN p : p[i] = todo[i + 1]
    BY <2>1
  <2>3. QED
    BY <2>2 DEF C
<1>4. \A i \in DOMAIN p : i \in Nat /\ i + 1 \in 2 .. Len(todo) /\ i + 1 \in DOMAIN todo
         /\ 1 \in 1 .. (i + 1) - 1
  BY <1>2, <1>3
<1>5. \A j \in 2 .. Len(todo) : j \in DOMAIN todo /\ 1 \in 1 .. j - 1 /\ j - 1 \in DOMAIN p
         /\ p[j - 1] = todo[j]
  BY <1>2, <1>3
<1>6. \A j \in 2 .. Len(todo) : InOrder(Call, todo[j])
  BY <1>1, <1>2, <1>5 DEF TodoOK, Ordered
<1>7. Ordered(p)
  <2> SUFFICES ASSUME NEW j \in DOMAIN p, NEW i \in 1 .. j - 1 PROVE InOrder(p[i], p[j])
    BY DEF Ordered
  <2>1. i \in DOMAIN p /\ i + 1 \in 1 .. (j + 1) - 1
    BY <1>3
  <2>2. InOrder(todo[i + 1], todo[j + 1])
    BY <1>1, <1>4, <2>1 DEF TodoOK, Ordered
  <2>3. QED
    BY <1>3, <2>1, <2>2
<1>8. ASSUME NEW j \in 2 .. Len(todo), todo[j].call = "promote"
      PROVE  /\ todo[j].key \notin DOMAIN c2
             /\ (Call.call \in {"enter", "promote"} => todo[j].key # Call.key)
             /\ todo[j] \in PromoteCall(world)
  <2>1. todo[j].key \notin DOMAIN cache
    BY <1>1, <1>5, <1>8 DEF TodoOK, CallReady
  <2>2. Call.call \in {"enter", "promote"} => Len(todo[j].key) < Len(Call.key)
    BY <1>6, <1>8 DEF InOrder
  <2>3. todo[j] \in PromoteCall(world)
    <3>1. todo[j] \in Calls(world)
      BY <1>2, <1>5
    <3>2. QED
      BY <1>8, <3>1, CallKinds
  <2>4. Len(todo[j].key) \in Nat
    BY <2>3 DEF PromoteCall, Path
  <2>5. Call.call \in {"enter", "promote"} => todo[j].key # Call.key
    BY <2>2, <2>4
  <2>6. QED
    BY <2>1, <2>3, <2>5
<1>9. \A j \in 2 .. Len(todo) : CallReady(world, m, c2, e2, todo[j])
  <2>1. \A j \in 2 .. Len(todo) : todo[j].call = "promote" => todo[j].key \notin DOMAIN c2
    BY <1>8
  <2>2. QED
    BY <1>1, <2>1, TailReady
(* Every subschema being built below still finds what it waits for. *)
<1>10. ASSUME NEW j \in DOMAIN p, p[j].call = "promote"
       PROVE  Building(world, c2, e2, p, j)
  <2> DEFINE J == j + 1
             pro == todo[J]
  <2>1. /\ J \in 2 .. Len(todo) /\ J \in DOMAIN todo /\ pro.call = "promote" /\ p[j] = pro
        /\ J - 1 = j /\ J \in Nat /\ j \in Nat
    BY <1>3, <1>4, <1>10
  <2>2. Building(world, cache, eval, todo, J)
    BY <1>1, <2>1 DEF TodoOK
  <2>3. pro.key \notin DOMAIN c2 /\ (Call.call \in {"enter", "promote"} => pro.key # Call.key)
        /\ pro \in PromoteCall(world) /\ InOrder(Call, pro)
    BY <1>6, <1>8, <2>1
  <2> HIDE DEF pro
  <2>4. ASSUME NEW k \in pro.sub.kids
        PROVE  k \in DOMAIN c2 \/ \E i \in 1 .. j - 1 : p[i].call \in {"enter", "promote"} /\ p[i].key = k
    <3>1. CASE k \in DOMAIN cache
      BY <3>1
    <3>2. ASSUME NEW i \in 1 .. J - 1, todo[i].call \in {"enter", "promote"}, todo[i].key = k, i # 1
          PROVE  \E x \in 1 .. j - 1 : p[x].call \in {"enter", "promote"} /\ p[x].key = k
      <4>1. i - 1 \in 1 .. j - 1 /\ i \in 2 .. Len(todo)
        BY <1>2, <2>1, <3>2
      <4>2. p[i - 1] = todo[i]
        BY <1>5, <4>1
      <4>3. QED
        BY <3>2, <4>1, <4>2
    <3>3. CASE Call.call \in {"enter", "promote"} /\ Call.key = k
      <4>1. CASE Call.call = "promote"
        BY <3>3, <4>1
      <4>2. CASE Call.call = "enter" /\ Call.key \in DOMAIN cache
        BY <3>3, <4>2
      <4>3. CASE Call.call = "enter" /\ InFlight(Call.key)
        <5>1. PICK x \in DOMAIN todo : todo[x].call = "promote" /\ todo[x].key = k
          BY <3>3, <4>3 DEF InFlight
        <5>2. x # 1
          BY <1>2, <4>3, <5>1
        <5>3. x \in 2 .. Len(todo)
          BY <1>2, <5>2
        <5>4. todo[x].key # Call.key
          BY <1>8, <4>3, <5>1, <5>3
        <5>5. QED
          BY <3>3, <5>1, <5>4
      <4>4. QED
        BY <3>3, <4>1, <4>2, <4>3
    <3>4. CASE \E i \in 1 .. J - 1 : todo[i].call \in {"enter", "promote"} /\ todo[i].key = k
      <4>1. PICK i \in 1 .. J - 1 : todo[i].call \in {"enter", "promote"} /\ todo[i].key = k
        BY <3>4
      <4>2. CASE i = 1
        BY <1>2, <3>3, <4>1, <4>2
      <4>3. CASE i # 1
        BY <3>2, <4>1, <4>3
      <4>4. QED
        BY <4>2, <4>3
    <3>5. k \in DOMAIN cache \/ \E i \in 1 .. J - 1 : todo[i].call \in {"enter", "promote"} /\ todo[i].key = k
      BY <2>2 DEF Building, pro
    <3>6. QED
      BY <3>1, <3>4, <3>5
  <2>5. ASSUME NEW i \in DOMAIN world.schema[pro.sub.node].refs,
               world.schema[pro.sub.node].refs[i].kw = "$ref"
        PROVE  \/ << pro.key, i >> \in DOMAIN e2
               \/ \E x \in 1 .. j - 1 : p[x].call = "resolve" /\ p[x].id = << pro.key, i >>
    <3>1. \/ << pro.key, i >> \in DOMAIN eval
          \/ \E x \in 1 .. J - 1 : todo[x].call = "resolve" /\ todo[x].id = << pro.key, i >>
      BY <2>2, <2>5 DEF Building, pro
    <3>2. ASSUME NEW x \in 1 .. J - 1, todo[x].call = "resolve", todo[x].id = << pro.key, i >>
          PROVE  \/ << pro.key, i >> \in DOMAIN e2
                 \/ \E y \in 1 .. j - 1 : p[y].call = "resolve" /\ p[y].id = << pro.key, i >>
      <4>1. CASE x # 1
        <5>1. x - 1 \in 1 .. j - 1 /\ x \in 2 .. Len(todo)
          BY <1>2, <2>1, <4>1
        <5>2. p[x - 1] = todo[x]
          BY <1>5, <5>1
        <5>3. QED
          BY <3>2, <5>1, <5>2
      <4>2. CASE x = 1
        <5>1. Call.call = "resolve" /\ Call.id = << pro.key, i >>
          BY <1>2, <3>2, <4>2
        <5>2. Resolving(world, todo, 1)
          BY <1>1, <1>2, <5>1 DEF TodoOK
        <5>3. PICK y \in DOMAIN todo :
                 /\ todo[y].call = "promote" /\ todo[y].key = Call.id[1]
                 /\ Call.id[2] \in DOMAIN world.schema[todo[y].sub.node].refs
                 /\ Call.ref = world.schema[todo[y].sub.node].refs[Call.id[2]]
          BY <1>2, <5>2 DEF Resolving
        <5>4. y = J
          <6>1. todo[y].key = pro.key
            BY <5>1, <5>3
          <6>2. Len(pro.key) \in Nat
            BY <2>3 DEF PromoteCall, Path
          <6>3. ASSUME y < J PROVE FALSE
            <7>1. y \in 1 .. J - 1
              BY <1>2, <2>1, <6>3
            <7>2. InOrder(todo[y], pro)
              BY <1>1, <2>1, <7>1 DEF TodoOK, Ordered, pro
            <7>3. Len(pro.key) < Len(todo[y].key)
              BY <2>1, <5>3, <7>2 DEF InOrder, pro
            <7>4. QED
              BY <6>1, <6>2, <7>3
          <6>4. ASSUME J < y PROVE FALSE
            <7>1. J \in 1 .. y - 1
              BY <1>2, <2>1, <6>4
            <7>2. InOrder(pro, todo[y])
              BY <1>1, <7>1 DEF TodoOK, Ordered, pro
            <7>3. Len(todo[y].key) < Len(pro.key)
              BY <2>1, <5>3, <7>2 DEF InOrder, pro
            <7>4. QED
              BY <6>1, <6>2, <7>3
          <6>5. y \in Nat /\ J \in Nat
            BY <1>2, <2>1
          <6> HIDE DEF J
          <6>6. QED
            BY <6>3, <6>4, <6>5
        <5>5. Call.ref = world.schema[pro.sub.node].refs[i]
          BY <5>1, <5>3, <5>4 DEF pro
        <5>6. QED
          BY <2>5, <5>1, <5>5
      <4>3. QED
        BY <4>1, <4>2
    <3>3. QED
      BY <3>1, <3>2
  <2>6. p[j] = pro
    BY <2>1
  <2>7. \A k \in p[j].sub.kids :
           k \in DOMAIN c2 \/ \E i \in 1 .. j - 1 : p[i].call \in {"enter", "promote"} /\ p[i].key = k
    BY <2>4, <2>6
  <2>8. \A i \in DOMAIN world.schema[p[j].sub.node].refs :
           world.schema[p[j].sub.node].refs[i].kw = "$ref" =>
              \/ << p[j].key, i >> \in DOMAIN e2
              \/ \E x \in 1 .. j - 1 : p[x].call = "resolve" /\ p[x].id = << p[j].key, i >>
    BY <2>5, <2>6
  <2>9. QED
    BY <2>7, <2>8 DEF Building
<1>11. ASSUME NEW i \in DOMAIN p, p[i].call = "resolve"
       PROVE  Resolving(world, p, i)
  <2>1. i + 1 \in 2 .. Len(todo) /\ i + 1 \in DOMAIN todo /\ todo[i + 1] = p[i]
    BY <1>3, <1>4
  <2>2. Call.call = "resolve"
    BY <1>6, <1>11, <2>1 DEF InOrder
  <2>3. Resolving(world, todo, i + 1)
    BY <1>1, <1>11, <2>1 DEF TodoOK
  <2>4. PICK y \in DOMAIN todo :
           /\ todo[y].call = "promote" /\ todo[y].key = p[i].id[1]
           /\ p[i].id[2] \in DOMAIN world.schema[todo[y].sub.node].refs
           /\ p[i].ref = world.schema[todo[y].sub.node].refs[p[i].id[2]]
    BY <2>1, <2>3 DEF Resolving
  <2>5. y # 1
    BY <1>2, <2>2, <2>4
  <2>6. y - 1 \in DOMAIN p /\ p[y - 1] = todo[y]
    BY <1>2, <1>5, <2>5
  <2>7. QED
    BY <2>4, <2>6 DEF Resolving
<1>12. \A i \in DOMAIN p : CallReady(world, m, c2, e2, p[i])
  BY <1>3, <1>4, <1>9
<1>13. SettlesKept(todo, p)
  <2> SUFFICES ASSUME NEW x \in DOMAIN todo, todo[x].call = "settle" PROVE \E y \in DOMAIN p : p[y] = todo[x]
    BY DEF SettlesKept
  <2>1. x # 1
    BY <1>2 DEF Inner
  <2>2. x \in 2 .. Len(todo)
    BY <1>2, <2>1
  <2>3. QED
    BY <1>5, <2>2
<1>14. QED
  BY <1>3, <1>7, <1>10, <1>11, <1>12, <1>13 DEF TodoOK


(* A call that leaves none in its place. *)
LEMMA Popped ==
  ASSUME Running, Then(<< >>)
  PROVE  todo' = Tail(todo) /\ outcome' = outcome
<1>1. todo \in Seq(Calls(world)) /\ todo # << >>
  BY FirstCall DEF Running
<1>2. << >> \o Tail(todo) = Tail(todo)
  BY <1>1
<1>3. QED
  BY <1>2 DEF Then

(* The build of a subschema ends: it enters the cache, after those it applies,
   unless a keyword's builder fails, which abandons the builds it is part of. *)
LEMMA PromoteStep ==
  ASSUME Running, Promote
  PROVE  BInv'
<1>1. /\ Call.call = "promote" /\ UNCHANGED << rm, eval, seen, work, loads, faults >>
      /\ Call \in PromoteCall(world) /\ Call.key \notin DOMAIN cache
  BY FirstCall, CallKinds DEF Promote, At, Call, CallReady
<1>2. /\ WorldOK(world) /\ MapOK(world, rm) /\ ~rm.failed /\ Fetching(world, rm, loads)
      /\ EvalOK(world, eval) /\ CacheOK(world, cache, eval) /\ work \in Seq(DOMAIN eval)
      /\ faults \in 0 .. MaxFaults /\ SeenOK(world, cache, eval, todo, seen)
      /\ TodoOK(world, rm, cache, eval, todo)
  BY DEF Running, BInv
<1>3. /\ Call = todo[1] /\ Call = Head(todo) /\ todo # << >> /\ 1 \in DOMAIN todo
      /\ DOMAIN todo = 1 .. Len(todo) /\ outcome = "running"
  BY FirstCall DEF Running, Call
<1>4. CASE S(Call.sub.node).fault = "builder"
  <2>1. Throw /\ cache' = cache
    BY <1>4 DEF Promote
  <2>2. \A j \in 2 .. Len(todo) : CallReady(world, rm, cache, eval, todo[j])
    BY <1>2, <1>3 DEF TodoOK
  <2>3. /\ TodoOK(world, rm, cache, eval, todo') /\ SettlesKept(todo, todo')
        /\ outcome' # "compiled" /\ (outcome' # "running" => todo' = << >>)
    BY <1>1, <1>2, <1>3, <2>1, <2>2, ThrowKeeps
  <2>4. SeenOK(world, cache, eval, todo', seen)
    <3> DEFINE p == todo'
    <3>1. SettlesKept(todo, p)
      BY <2>3
    <3> HIDE DEF p
    <3>2. SeenOK(world, cache, eval, p, seen)
      BY <3>1, StillSeen
    <3>3. QED
      BY <3>2 DEF p
  <2>5. EndOK(cache', todo', seen, outcome')
    BY <2>3 DEF EndOK
  <2>6. QED
    BY <1>1, <1>2, <2>1, <2>3, <2>4, <2>5, Assembled DEF Running
<1>5. CASE S(Call.sub.node).fault # "builder"
  <2> DEFINE key == Call.key
             sub == Call.sub
             c2 == Put(cache, key, sub)
             p == Tail(todo)
  <2>1. cache' = c2 /\ todo' = p /\ outcome' = outcome
    BY <1>5, Popped DEF Promote
  <2>2. /\ DOMAIN c2 = DOMAIN cache \cup {key} /\ c2[key] = sub
        /\ \A k \in DOMAIN cache : k # key /\ c2[k] = cache[k]
    BY <1>1 DEF Put
  <2>3. key \in Path /\ sub \in Subschema(world)
    BY <1>1 DEF PromoteCall
  <2>4. Building(world, cache, eval, todo, 1)
    BY <1>1, <1>2, <1>3 DEF TodoOK
  <2>5. /\ sub.kids \subseteq DOMAIN cache
        /\ \A i \in DOMAIN world.schema[sub.node].refs :
              world.schema[sub.node].refs[i].kw = "$ref" => << key, i >> \in DOMAIN eval
    BY <1>3, <2>4 DEF Building
  <2> HIDE DEF c2, p, key, sub
  <2>6. CacheOK(world, c2, eval)
    <3>1. IsFiniteSet(DOMAIN c2) /\ DOMAIN c2 \subseteq Path
      BY <1>2, <2>2, <2>3, FS_AddElement DEF CacheOK
    <3>2. ASSUME NEW k \in DOMAIN c2
          PROVE  /\ c2[k] \in Subschema(world) /\ c2[k].kids \subseteq DOMAIN c2
                 /\ \A i \in DOMAIN world.schema[c2[k].node].refs :
                       world.schema[c2[k].node].refs[i].kw = "$ref" => << k, i >> \in DOMAIN eval
      <4>1. CASE k = key
        BY <2>2, <2>3, <2>5, <4>1
      <4>2. CASE k \in DOMAIN cache
        BY <1>2, <2>2, <4>2 DEF CacheOK
      <4>3. QED
        BY <2>2, <4>1, <4>2
    <3>3. QED
      BY <3>1, <3>2 DEF CacheOK
  <2>7. TodoOK(world, rm, c2, eval, p) /\ SettlesKept(todo, p)
    <3>1. /\ Call.call \in Inner /\ Call.call # "enter" /\ Call.call # "resolve"
          /\ DOMAIN cache \subseteq DOMAIN c2 /\ Call.key \in DOMAIN c2
          /\ \A k \in DOMAIN c2 : k \in DOMAIN cache \/ (Call.call = "promote" /\ k = Call.key)
      BY <1>1, <2>2 DEF Inner, key
    <3>2. p = Tail(todo)
      BY DEF p
    <3>3. QED
      BY <3>1, <3>2, LearnedNothing, InnerDone
  <2>8. SeenOK(world, c2, eval, p, seen)
    <3>1. \A k \in seen : k \in DOMAIN c2 /\ c2[k] = cache[k]
      BY <1>2, <2>2 DEF SeenOK
    <3>2. QED
      BY <1>2, <2>7, <3>1, SeenStays
  <2>9. EndOK(c2, p, seen, outcome')
    BY <1>3, <2>1 DEF EndOK
  <2>10. QED
    BY <1>1, <1>2, <2>1, <2>6, <2>7, <2>8, <2>9, Assembled DEF Running
<1>6. QED
  BY <1>4, <1>5

(* What a reference's builder leaves: the evaluator of that reference, if it
   makes one, which no subschema visited so far has. *)
LEMMA ResolvedStep ==
  ASSUME Running, Call.call = "resolve", UNCHANGED << cache, seen, work >>, Then(<< >>),
         MapOK(world, rm'), ~rm'.failed, Learned(world, rm, rm'), Fetching(world, rm', loads'),
         faults' \in 0 .. MaxFaults,
         \/ eval' = eval /\ Call.ref.kw # "$ref"
         \/ \E x \in Evaluator(world) : eval' = Put(eval, Call.id, x)
  PROVE  BInv'
<1>1. /\ Call \in ResolveCall /\ Call.id \in ID
  BY FirstCall, CallKinds DEF ResolveCall
<1>2. /\ WorldOK(world) /\ EvalOK(world, eval) /\ CacheOK(world, cache, eval) /\ work \in Seq(DOMAIN eval)
      /\ SeenOK(world, cache, eval, todo, seen) /\ TodoOK(world, rm, cache, eval, todo)
  BY DEF Running, BInv
<1>3. /\ Call = todo[1] /\ todo # << >> /\ 1 \in DOMAIN todo /\ outcome = "running"
  BY FirstCall DEF Running, Call
<1>4. todo' = Tail(todo) /\ outcome' = outcome
  BY Popped
<1> DEFINE m == rm'
           e2 == eval'
           p == Tail(todo)
           id == Call.id
<1>5. /\ DOMAIN eval \subseteq DOMAIN e2 /\ DOMAIN e2 \subseteq DOMAIN eval \cup {id}
      /\ \A x \in DOMAIN eval : x # id => e2[x] = eval[x]
      /\ id \in DOMAIN e2 \/ Call.ref.kw # "$ref"
      /\ EvalOK(world, e2)
  <2>1. CASE eval' = eval /\ Call.ref.kw # "$ref"
    BY <1>2, <2>1
  <2>2. ASSUME NEW x \in Evaluator(world), eval' = Put(eval, Call.id, x)
        PROVE  /\ DOMAIN eval \subseteq DOMAIN e2 /\ DOMAIN e2 \subseteq DOMAIN eval \cup {id}
               /\ \A y \in DOMAIN eval : y # id => e2[y] = eval[y]
               /\ id \in DOMAIN e2 /\ EvalOK(world, e2)
    <3>1. /\ DOMAIN e2 = DOMAIN eval \cup {id} /\ e2[id] = x
          /\ \A y \in DOMAIN eval : y # id => e2[y] = eval[y]
      BY <2>2 DEF Put
    <3>2. EvalOK(world, e2)
      BY <1>1, <1>2, <3>1 DEF EvalOK
    <3>3. QED
      BY <3>1, <3>2
  <2>3. QED
    BY <2>1, <2>2
<1>6. MapOK(world, m) /\ Learned(world, rm, m)
  OBVIOUS
<1>7. \A k \in seen : k # id[1]
  <2>1. Resolving(world, todo, 1)
    BY <1>2, <1>3 DEF TodoOK
  <2>2. PICK j \in DOMAIN todo : todo[j].call = "promote" /\ todo[j].key = id[1]
    BY <1>3, <2>1 DEF Resolving
  <2>3. id[1] \notin DOMAIN cache
    BY <1>2, <2>2 DEF TodoOK, CallReady
  <2>4. QED
    BY <1>2, <2>3 DEF SeenOK
<1> HIDE DEF m, e2, p, id
<1>8. TodoOK(world, m, cache, e2, p) /\ SettlesKept(todo, p)
  <2>1. Call.call \in Inner /\ Call.call # "enter" /\ Call.call # "promote"
    BY DEF Inner
  <2>2. Call.id \in DOMAIN e2 \/ Call.ref.kw # "$ref"
    BY <1>5 DEF id
  <2>3. p = Tail(todo)
    BY DEF p
  <2>4. QED
    BY <1>5, <1>6, <2>1, <2>2, <2>3, InnerDone
<1>9. SeenOK(world, cache, e2, p, seen)
  <2>1. \A k \in seen : k \in DOMAIN cache
    BY <1>2 DEF SeenOK
  <2>2. ASSUME NEW k \in seen, NEW i, << k, i >> \in DOMAIN e2
        PROVE  << k, i >> \in DOMAIN eval /\ e2[<< k, i >>] = eval[<< k, i >>]
    <3>1. << k, i >> # id
      BY <1>7
    <3>2. QED
      BY <1>5, <2>2, <3>1
  <2>3. QED
    BY <1>2, <1>8, <2>1, <2>2, SeenStays
<1>10. CacheOK(world, cache, e2) /\ work \in Seq(DOMAIN e2)
  <2>1. CacheOK(world, cache, e2)
    BY <1>2, <1>5 DEF CacheOK
  <2>2. work \in Seq(DOMAIN e2)
    BY <1>2, <1>5
  <2>3. QED
    BY <2>1, <2>2
<1>11. EndOK(cache, p, seen, outcome')
  BY <1>3, <1>4 DEF EndOK
<1>12. /\ EvalOK(world, eval') /\ CacheOK(world, cache', eval') /\ work' \in Seq(DOMAIN eval')
       /\ SeenOK(world, cache', eval', todo', seen') /\ TodoOK(world, rm', cache', eval', todo')
       /\ EndOK(cache', todo', seen', outcome')
  BY <1>4, <1>5, <1>8, <1>9, <1>10, <1>11 DEF m, e2, p
<1>13. QED
  BY <1>12, Assembled DEF Running

(* The builder of a reference resolves it and keeps what it found, or makes none in
   an older draft. *)
LEMMA ResolveReferenceStep ==
  ASSUME Running, ResolveReference
  PROVE  BInv'
<1>1. /\ Call.call = "resolve" /\ UNCHANGED << cache, seen, work >> /\ Then(<< >>) /\ Call \in ResolveCall
  BY FirstCall, CallKinds DEF ResolveReference, At, Call
<1> DEFINE ref == Call.ref
           base == IF Call.base = << >> THEN RootURI ELSE Call.base
           Names(n) == Len(ref.frag) = 1 /\ n # None /\ S(n).dyn = ref.frag[1]
<1>2. /\ WorldOK(world) /\ MapOK(world, rm) /\ ~rm.failed /\ Fetching(world, rm, loads)
      /\ faults \in 0 .. MaxFaults
  BY DEF Running, BInv
<1>3. /\ ref \in KeywordRef /\ base \in Path /\ Call.draft \in Draft
  BY <1>1, <1>2, RootTyped DEF ResolveCall
<1>4. /\ ref.kw \in {"$ref", "$dynamicRef", "$recursiveRef"} /\ ref.frag \in Seq(Token)
      /\ ref \in RefTo({"$ref", "$dynamicRef", "$recursiveRef"})
  BY <1>3 DEF KeywordRef, RefTo, Path
<1>5. CASE Call.draft = "legacy" /\ ref.kw # "$ref"
  <2>1. UNCHANGED << rm, loads, faults, eval >>
    BY <1>5 DEF ResolveReference
  <2>2. Learned(world, rm, rm')
    BY <2>1, LearnedNothing
  <2>3. QED
    BY <1>1, <1>2, <1>5, <2>1, <2>2, ResolvedStep
<1>6. CASE ~(Call.draft = "legacy" /\ ref.kw # "$ref")
  <2>1. PICK got \in Resolutions(base, ref, {}, Call.draft) :
          /\ Learn(got)
          /\ eval' = Put(eval, Call.id,
                 [kw |-> ref.kw, key |-> got.key, uri |-> got.uri, target |-> got.target,
                  name |-> IF ref.kw = "$dynamicRef" /\ Names(got.target) THEN ref.frag[1] ELSE None,
                  built |-> {}, failed |-> {}])
    BY <1>6 DEF ResolveReference
  <2> HIDE DEF base
  <2>2. /\ MapOK(world, got.rm) /\ ~got.rm.failed /\ Learned(world, rm, got.rm)
        /\ Fetching(world, got.rm, got.loads) /\ got.faults \in 0 .. MaxFaults
        /\ got.target \in Node(world) \cup {None} /\ got.uri \in Path /\ got.key \in Path
    BY <1>2, <1>3, <1>4, <2>1, ResolutionsKeep
  <2>3. rm' = got.rm /\ loads' = got.loads /\ faults' = got.faults
    BY <2>1 DEF Learn
  <2> DEFINE name == IF ref.kw = "$dynamicRef" /\ Names(got.target) THEN ref.frag[1] ELSE None
             x == [kw |-> ref.kw, key |-> got.key, uri |-> got.uri, target |-> got.target,
                   name |-> name, built |-> {}, failed |-> {}]
  <2>4. name \in Token \cup {None}
    <3>1. Len(ref.frag) = 1 => ref.frag[1] \in Token
      BY <1>4
    <3>2. QED
      BY <3>1
  <2>5. eval' = Put(eval, Call.id, x)
    BY <2>1
  <2> HIDE DEF name
  <2>6. x \in Evaluator(world)
    BY <1>4, <2>2, <2>4 DEF Evaluator
  <2> HIDE DEF x
  <2>7. QED
    BY <1>1, <2>2, <2>3, <2>5, <2>6, ResolvedStep
<1>7. QED
  BY <1>5, <1>6

(* The calls that build a subschema: its references, the subschemas it applies,
   whose locations are longer, and last its entry into the cache. *)
References(n) == world.schema[n].refs
Started(new, pro) ==
    /\ Len(new) \in Nat /\ Len(new) > 0 /\ DOMAIN new = 1 .. Len(new) /\ new[Len(new)] = pro
    /\ \A i \in 1 .. Len(new) - 1 :
          \/ /\ new[i].call = "resolve" /\ new[i].id[1] = pro.key
             /\ new[i].id[2] \in DOMAIN References(pro.sub.node)
             /\ new[i].ref = References(pro.sub.node)[new[i].id[2]]
          \/ new[i].call = "enter" /\ Len(pro.key) < Len(new[i].key)
    /\ \A j \in DOMAIN new : \A i \in 1 .. j - 1 : new[j].call = "resolve" => new[i].call = "resolve"
    /\ \A k \in pro.sub.kids : \E i \in 1 .. Len(new) - 1 : new[i].call = "enter" /\ new[i].key = k
    /\ \A i \in DOMAIN References(pro.sub.node) :
          \E x \in 1 .. Len(new) - 1 : new[x].call = "resolve" /\ new[x].id = << pro.key, i >>

(* What a subschema being built waits for, said of the call q that ends its
   build. *)
Waits(w, c, e, t, j, q) ==
    /\ \A k \in q.sub.kids :
          k \in DOMAIN c \/ \E i \in 1 .. j - 1 : t[i].call \in {"enter", "promote"} /\ t[i].key = k
    /\ \A i \in DOMAIN w.schema[q.sub.node].refs :
          w.schema[q.sub.node].refs[i].kw = "$ref" =>
             \/ << q.key, i >> \in DOMAIN e
             \/ \E x \in 1 .. j - 1 : t[x].call = "resolve" /\ t[x].id = << q.key, i >>

(* It is what the invariant asks for, that call being the j-th. *)
LEMMA BuildingOf ==
  ASSUME NEW w, NEW c, NEW e, NEW t, NEW j, NEW q, t[j] = q, Waits(w, c, e, t, j, q)
  PROVE  Building(w, c, e, t, j)
  BY DEF Building, Waits

(* The calls that build a subschema may take the place of the one that enters it:
   those below it are no longer, and what waits for it now waits for its entry. *)
LEMMA StartedCalls ==
  ASSUME Running, Call.call = "enter", Call.key \notin DOMAIN cache,
         NEW new \in Seq(Calls(world)), NEW pro \in PromoteCall(world), pro.key = Call.key, Started(new, pro),
         NEW p, p = new \o Tail(todo)
  PROVE  TodoOK(world, rm, cache, eval, p)
<1>1. WorldOK(world) /\ TodoOK(world, rm, cache, eval, todo) /\ pro.call = "promote"
  BY DEF Running, BInv, PromoteCall
<1>2. /\ todo \in Seq(Calls(world)) /\ Call = todo[1] /\ todo # << >>
      /\ DOMAIN todo = 1 .. Len(todo) /\ Len(todo) \in Nat /\ Len(todo) > 0
  BY FirstCall DEF Running
<1>3. p \in Seq(Calls(world)) /\ PushedOn(p, new, todo)
  <2> DEFINE C == Calls(world)
  <2>1. todo \in Seq(C) /\ new \in Seq(C)
    BY <1>2
  <2> HIDE DEF C
  <2>2. p \in Seq(C) /\ PushedOn(p, new, todo)
    BY <1>2, <2>1, Stacked
  <2>3. QED
    BY <2>2 DEF C
<1> DEFINE N == Len(new)
<1>4. /\ N \in Nat /\ N > 0 /\ DOMAIN new = 1 .. N /\ new[N] = pro
      /\ \A i \in DOMAIN new : i = N \/ i \in 1 .. N - 1
  BY DEF Started
<1>0. /\ \A i \in 1 .. N - 1 :
            \/ /\ new[i].call = "resolve" /\ new[i].id[1] = pro.key
               /\ new[i].id[2] \in DOMAIN References(pro.sub.node)
               /\ new[i].ref = References(pro.sub.node)[new[i].id[2]]
            \/ new[i].call = "enter" /\ Len(pro.key) < Len(new[i].key)
      /\ \A j \in DOMAIN new : \A i \in 1 .. j - 1 : new[j].call = "resolve" => new[i].call = "resolve"
      /\ \A k \in pro.sub.kids : \E i \in 1 .. N - 1 : new[i].call = "enter" /\ new[i].key = k
      /\ \A i \in DOMAIN References(pro.sub.node) :
            \E x \in 1 .. N - 1 : new[x].call = "resolve" /\ new[x].id = << pro.key, i >>
  BY DEF Started
<1>5. /\ DOMAIN p = 1 .. Len(p) /\ Len(p) = N + Len(todo) - 1
      /\ \A i \in DOMAIN new : i \in DOMAIN p /\ p[i] = new[i]
      /\ \A j \in 2 .. Len(todo) : N + j - 1 \in DOMAIN p /\ p[N + j - 1] = todo[j]
      /\ \A i \in DOMAIN p :
            \/ i \in DOMAIN new /\ p[i] = new[i]
            \/ \E j \in 2 .. Len(todo) : i = N + j - 1 /\ p[i] = todo[j]
  BY <1>3 DEF PushedOn
<1> HIDE DEF N
<1>6. ASSUME NEW j \in 2 .. Len(todo)
      PROVE  /\ todo[j].call \notin {"seed", "walk", "resolve"}
             /\ (todo[j].call = "promote" => Len(todo[j].key) < Len(Call.key) /\ Len(todo[j].key) \in Nat)
             /\ CallReady(world, rm, cache, eval, todo[j])
  <2>1. j \in DOMAIN todo /\ 1 \in 1 .. j - 1
    BY <1>2
  <2>2. InOrder(Call, todo[j]) /\ CallReady(world, rm, cache, eval, todo[j]) /\ todo[j] \in Calls(world)
    BY <1>1, <1>2, <2>1 DEF TodoOK, Ordered
  <2>3. todo[j].call = "promote" => todo[j] \in PromoteCall(world)
    BY <2>2, CallKinds
  <2>4. todo[j].call = "promote" => Len(todo[j].key) \in Nat
    BY <2>3 DEF PromoteCall, Path
  <2>5. QED
    BY <2>2, <2>4 DEF InOrder
<1>7. ASSUME NEW i \in DOMAIN new
      PROVE  /\ new[i].call \in Inner
             /\ (new[i].call = "resolve" => new[i].id[1] = pro.key)
             /\ (new[i].call = "promote" => i = N)
             /\ (i # N /\ new[i].call = "enter" => Len(pro.key) < Len(new[i].key) /\ Len(new[i].key) \in Nat)
             /\ CallReady(world, rm, cache, eval, new[i])
  <2>1. CASE i = N
    BY <1>1, <1>4, <2>1 DEF Inner, CallReady
  <2>2. CASE i \in 1 .. N - 1
    <3>1. new[i] \in Calls(world)
      BY <1>4
    <3>2. new[i].call = "enter" => new[i] \in EnterCall(world)
      BY <3>1, CallKinds
    <3>3. new[i].call = "enter" => Len(new[i].key) \in Nat
      BY <3>2 DEF EnterCall, Path
    <3>4. \/ new[i].call = "resolve" /\ new[i].id[1] = pro.key
          \/ new[i].call = "enter" /\ Len(pro.key) < Len(new[i].key)
      BY <1>0, <2>2
    <3>5. QED
      BY <1>4, <3>3, <3>4 DEF Inner, CallReady
  <2>3. QED
    BY <1>4, <2>1, <2>2
<1>8. Len(pro.key) \in Nat /\ Len(pro.key) = Len(Call.key)
  BY DEF PromoteCall, Path
<1>9. Ordered(p)
  <2>1. Ordered(new)
    <3> SUFFICES ASSUME NEW j \in DOMAIN new, NEW i \in 1 .. j - 1 PROVE InOrder(new[i], new[j])
      BY DEF Ordered
    <3>1. i \in DOMAIN new /\ i # N
      BY <1>4
    <3>2. new[j].call = "resolve" => new[i].call = "resolve"
      BY <1>0
    <3>3. new[j].call = "promote" => new[j] = pro
      BY <1>4, <1>7
    <3>4. new[i].call \in {"enter", "resolve"} /\ new[j].call \in Inner
      BY <1>7, <3>1 DEF Inner
    <3>5. /\ new[i].call = "resolve" => new[i].id[1] = pro.key
          /\ new[i].call = "enter" => Len(pro.key) < Len(new[i].key)
      BY <1>7, <3>1
    <3>6. new[j].call = "promote" =>
             /\ new[i].call \in Inner
             /\ (new[i].call \in {"enter", "promote"} => Len(new[j].key) < Len(new[i].key))
             /\ (new[i].call = "resolve" => Len(new[j].key) <= Len(new[i].id[1]))
      BY ONLY <1>8, <3>3, <3>4, <3>5 DEF Inner
    <3>7. QED
      BY ONLY <3>2, <3>4, <3>6 DEF InOrder, Inner
  <2>2. ASSUME NEW i \in DOMAIN new, NEW j \in 2 .. Len(todo) PROVE InOrder(new[i], todo[j])
    <3>1. new[i].call \in Inner
      BY <1>7
    <3>2. /\ new[i].call \in {"enter", "promote"} => Len(pro.key) <= Len(new[i].key)
          /\ new[i].call = "resolve" => new[i].id[1] = pro.key
      BY <1>4, <1>7, <1>8
    <3>3. todo[j].call = "promote" =>
             /\ new[i].call \in {"enter", "promote"} => Len(todo[j].key) < Len(new[i].key)
             /\ new[i].call = "resolve" => Len(todo[j].key) <= Len(new[i].id[1])
      <4> SUFFICES ASSUME todo[j].call = "promote"
                   PROVE  /\ new[i].call \in {"enter", "promote"} => Len(todo[j].key) < Len(new[i].key)
                          /\ new[i].call = "resolve" => Len(todo[j].key) <= Len(new[i].id[1])
        OBVIOUS
      <4>1. Len(todo[j].key) \in Nat /\ Len(todo[j].key) < Len(pro.key)
        BY <1>6, <1>8
      <4>2. ASSUME new[i].call \in {"enter", "promote"} PROVE Len(todo[j].key) < Len(new[i].key)
        <5>1. Len(new[i].key) \in Nat /\ Len(pro.key) <= Len(new[i].key)
          BY <1>4, <1>7, <1>8, <4>2
        <5>2. QED
          BY <1>8, <4>1, <5>1
      <4>3. new[i].call = "resolve" => Len(todo[j].key) <= Len(new[i].id[1])
        BY <1>8, <3>2, <4>1
      <4>4. QED
        BY <4>2, <4>3
    <3>4. QED
      BY <1>6, <3>1, <3>3 DEF InOrder, Inner
  <2>3. QED
    <3> DEFINE C == Calls(world)
    <3>1. todo \in Seq(C) /\ new \in Seq(C) /\ Ordered(todo)
      BY <1>1, <1>2 DEF TodoOK
    <3> HIDE DEF C
    <3>2. QED
      BY <1>2, <2>1, <2>2, <3>1, OrderKept
<1>10. \A i \in DOMAIN p : CallReady(world, rm, cache, eval, p[i])
  BY <1>5, <1>6, <1>7
<1>11. ASSUME NEW y \in DOMAIN p, p[y].call = "promote"
       PROVE  Building(world, cache, eval, p, y)
  <2>1. CASE y \in DOMAIN new /\ p[y] = new[y]
    <3>1. y = N /\ p[y] = pro
      BY <1>4, <1>7, <1>11, <2>1
    <3>2. \A i \in 1 .. N - 1 : p[i] = new[i]
      BY <1>4, <1>5
    <3>3. ASSUME NEW k \in pro.sub.kids
          PROVE  k \in DOMAIN cache \/ \E i \in 1 .. y - 1 : p[i].call \in {"enter", "promote"}
                    /\ p[i].key = k
      <4>1. PICK i \in 1 .. N - 1 : new[i].call = "enter" /\ new[i].key = k
        BY <1>0
      <4>2. i \in 1 .. y - 1 /\ p[i] = new[i]
        BY <3>1, <3>2
      <4>3. QED
        BY <4>1, <4>2
    <3>4. ASSUME NEW i \in DOMAIN world.schema[pro.sub.node].refs,
                 world.schema[pro.sub.node].refs[i].kw = "$ref"
          PROVE  \/ << pro.key, i >> \in DOMAIN eval
                 \/ \E x \in 1 .. y - 1 : p[x].call = "resolve" /\ p[x].id = << pro.key, i >>
      <4>1. PICK x \in 1 .. N - 1 : new[x].call = "resolve" /\ new[x].id = << pro.key, i >>
        BY <1>0 DEF References
      <4>2. x \in 1 .. y - 1 /\ p[x] = new[x]
        BY <3>1, <3>2
      <4>3. QED
        BY <4>1, <4>2
    <3>5. p[y] = pro
      BY <3>1
    <3>6. Waits(world, cache, eval, p, y, pro)
      BY ONLY <3>3, <3>4 DEF Waits
    <3>7. QED
      BY ONLY <3>5, <3>6, BuildingOf
  <2>2. ASSUME NEW j \in 2 .. Len(todo), y = N + j - 1, p[y] = todo[j]
        PROVE  Building(world, cache, eval, p, y)
    <3>0. j \in DOMAIN todo /\ todo[j].call = "promote"
      BY <1>2, <1>11, <2>2
    <3>1. Building(world, cache, eval, todo, j)
      BY <1>1, <3>0 DEF TodoOK
    <3>2. ASSUME NEW i \in 2 .. j - 1 PROVE N + i - 1 \in 1 .. y - 1 /\ p[N + i - 1] = todo[i]
      <4>1. i \in 2 .. Len(todo)
        BY <1>2
      <4>2. p[N + i - 1] = todo[i]
        BY <1>5, <4>1
      <4>3. N + i - 1 \in 1 .. y - 1
        <5>1. N \in Nat /\ Len(todo) \in Nat
          BY <1>2, <1>4
        <5>2. QED
          BY ONLY <2>2, <5>1, i \in 2 .. j - 1, j \in 2 .. Len(todo)
      <4>4. QED
        BY <4>2, <4>3
    <3>3. N \in 1 .. y - 1 /\ p[N] = pro
      BY <1>2, <1>4, <1>5, <2>2
    <3>4. ASSUME NEW k \in todo[j].sub.kids
          PROVE  \/ k \in DOMAIN cache
                 \/ \E i \in 1 .. y - 1 : p[i].call \in {"enter", "promote"} /\ p[i].key = k
      <4>1. CASE k \in DOMAIN cache
        BY <4>1
      <4>2. ASSUME NEW i \in 1 .. j - 1, todo[i].call \in {"enter", "promote"}, todo[i].key = k
            PROVE  \E x \in 1 .. y - 1 : p[x].call \in {"enter", "promote"} /\ p[x].key = k
        <5>1. CASE i = 1
          BY <1>1, <1>2, <3>3, <4>2, <5>1
        <5>2. CASE i \in 2 .. j - 1
          BY <3>2, <4>2, <5>2
        <5>3. QED
          BY <4>2, <5>1, <5>2
      <4>3. QED
        BY <3>1, <4>1, <4>2 DEF Building
    <3>5. ASSUME NEW i \in DOMAIN world.schema[todo[j].sub.node].refs,
                 world.schema[todo[j].sub.node].refs[i].kw = "$ref"
          PROVE  \/ << todo[j].key, i >> \in DOMAIN eval
                 \/ \E x \in 1 .. y - 1 : p[x].call = "resolve" /\ p[x].id = << todo[j].key, i >>
      <4>1. CASE << todo[j].key, i >> \in DOMAIN eval
        BY <4>1
      <4>2. ASSUME NEW x \in 1 .. j - 1, todo[x].call = "resolve", todo[x].id = << todo[j].key, i >>
            PROVE  \E z \in 1 .. y - 1 : p[z].call = "resolve" /\ p[z].id = << todo[j].key, i >>
        <5>1. x # 1
          BY <1>2, <4>2
        <5>2. x \in 2 .. j - 1
          BY <4>2, <5>1
        <5>3. QED
          BY <3>2, <4>2, <5>2
      <4>3. QED
        BY <3>1, <3>5, <4>1, <4>2 DEF Building
    <3>6. p[y] = todo[j]
      BY <2>2
    <3>7. Waits(world, cache, eval, p, y, todo[j])
      BY ONLY <3>4, <3>5 DEF Waits
    <3>8. QED
      BY ONLY <3>6, <3>7, BuildingOf
  <2>3. QED
    BY <1>5, <2>1, <2>2
<1>12. ASSUME NEW y \in DOMAIN p, p[y].call = "resolve"
       PROVE  Resolving(world, p, y)
  <2>1. y \in DOMAIN new /\ p[y] = new[y]
    BY <1>5, <1>6, <1>12
  <2>2. y \in 1 .. N - 1
    BY <1>1, <1>4, <1>12, <2>1
  <2>3. /\ p[y].id[1] = pro.key /\ p[y].id[2] \in DOMAIN References(pro.sub.node)
        /\ p[y].ref = References(pro.sub.node)[p[y].id[2]]
    BY <1>0, <1>12, <2>1, <2>2
  <2>4. N \in DOMAIN p /\ p[N] = pro
    BY <1>4, <1>5
  <2>5. QED
    BY <1>1, <2>3, <2>4 DEF Resolving, References
<1>13. QED
  BY <1>3, <1>9, <1>10, <1>11, <1>12 DEF TodoOK

(* What the node that is entered gives its subschema. *)
LEMMA EnteredTyped ==
  ASSUME WorldOK(world), MapOK(world, rm), NEW n \in Node(world), NEW base \in Path
  PROVE  DraftAt(n) \in Draft /\ Applied(n, base) \in Path
<1>1. n \in DOMAIN rm.owner =>
         /\ rm.owner[n] \in DOMAIN rm.reg /\ rm.owner[n].uri \in Path
         /\ rm.owner[n].uri \in DOMAIN rm.byURI
  BY DEF MapOK, OwnersOK, ResourcesOK, Resource
<1>2. n \in DOMAIN rm.owner => rm.reg[rm.byURI[rm.owner[n].uri]].draft \in Draft
  <2> SUFFICES ASSUME n \in DOMAIN rm.owner PROVE rm.reg[rm.byURI[rm.owner[n].uri]].draft \in Draft
    OBVIOUS
  <2> DEFINE r == rm.byURI[rm.owner[n].uri]
  <2>1. r \in DOMAIN rm.reg
    BY <1>1 DEF MapOK, UrisOK
  <2> HIDE DEF r
  <2>2. DataOK(world, rm, r, rm.reg[r])
    BY <2>1 DEF MapOK, ResourcesOK
  <2>3. rm.reg[r].draft \in Draft
    BY <2>2 DEF DataOK
  <2>4. QED
    BY <2>3 DEF r
<1>3. DraftAt(n) \in Draft
  BY <1>2, Fields, RootTyped DEF DraftAt
<1>4. << >> \in Path
  BY DEF Path
<1>5. Applied(n, base) \in Path
  BY <1>1, <1>4, NamedPath DEF Applied
<1>6. QED
  BY <1>3, <1>5

(* The calls that build the references of a node. *)
LEMMA ResolveCalls ==
  ASSUME WorldOK(world), NEW n \in Node(world), NEW key \in Path, NEW base \in Path, NEW draft \in Draft,
         NEW a, a = [i \in DOMAIN S(n).refs |->
                        [call |-> "resolve", id |-> << key, i >>, ref |-> S(n).refs[i],
                         base |-> base, draft |-> draft]]
  PROVE  /\ a \in Seq(Calls(world)) /\ Len(a) = Len(S(n).refs) /\ DOMAIN S(n).refs = 1 .. Len(S(n).refs)
         /\ \A i \in DOMAIN S(n).refs : /\ a[i].call = "resolve" /\ a[i].id = << key, i >>
                                        /\ a[i].ref = S(n).refs[i]
<1> DEFINE refs == S(n).refs
           C == Calls(world)
<1>1. refs \in Seq(KeywordRef)
  BY Fields
<1>2. DOMAIN a = DOMAIN refs /\ a = [i \in DOMAIN refs |-> a[i]]
  OBVIOUS
<1>3. ASSUME NEW i \in DOMAIN refs
      PROVE  a[i] \in ResolveCall /\ a[i].call = "resolve" /\ a[i].id = << key, i >> /\ a[i].ref = refs[i]
  <2>1. i \in Nat /\ refs[i] \in KeywordRef
    BY <1>1
  <2>2. << key, i >> \in ID
    BY <2>1 DEF ID
  <2>3. QED
    BY <2>1, <2>2 DEF ResolveCall
<1>4. \A i \in DOMAIN refs : a[i] \in C
  BY <1>3 DEF Calls
<1> HIDE DEF refs, C
<1>5. a \in Seq(C) /\ Len(a) = Len(refs)
  BY ONLY <1>1, <1>2, <1>4, Lists
<1>6. DOMAIN refs = 1 .. Len(refs)
  BY ONLY <1>1
<1>7. QED
  BY <1>3, <1>5, <1>6 DEF refs, C

KidsOf(kids, n) == \A i \in DOMAIN kids : S(kids[i]).parent = n
Entering(b, kids, key) ==
    /\ Len(b) = Len(kids) /\ DOMAIN kids = 1 .. Len(kids)
    /\ \A i \in DOMAIN kids : /\ b[i].call = "enter" /\ b[i].key = key \o Tokens(kids[i])
                              /\ key \o Tokens(kids[i]) \in Path /\ Len(key) < Len(b[i].key)

(* The calls that build the subschemas a node applies: their locations are longer. *)
LEMMA EnterCalls ==
  ASSUME WorldOK(world), NEW n \in Node(world), NEW key \in Path, NEW base \in Path, NEW flag \in BOOLEAN,
         NEW kids \in Seq(Node(world)), KidsOf(kids, n),
         NEW b, b = [i \in DOMAIN kids |-> Enter(kids[i], key \o Tokens(kids[i]), base, flag)]
  PROVE  b \in Seq(Calls(world)) /\ Entering(b, kids, key)
<1> DEFINE C == Calls(world)
<1>1. DOMAIN b = DOMAIN kids /\ b = [i \in DOMAIN kids |-> b[i]]
  OBVIOUS
<1>2. ASSUME NEW i \in DOMAIN kids
      PROVE  /\ b[i] \in EnterCall(world) /\ b[i].call = "enter" /\ b[i].key = key \o Tokens(kids[i])
             /\ key \o Tokens(kids[i]) \in Path /\ Len(key) < Len(b[i].key)
  <2> DEFINE s == Tokens(kids[i])
  <2>1. kids[i] \in Node(world)
    OBVIOUS
  <2>2. S(kids[i]).parent # None
    BY Fields DEF KidsOf
  <2>3. s \in Seq(Token) /\ Len(s) > 0 /\ key \in Seq(Token)
    BY <2>1, <2>2, TokensTyped DEF Path
  <2> HIDE DEF s
  <2>4. key \o s \in Seq(Token) /\ Len(key) < Len(key \o s)
    BY ONLY <2>3
  <2>5. key \o Tokens(kids[i]) \in Path /\ Len(key) < Len(key \o Tokens(kids[i]))
    BY <2>4 DEF s, Path
  <2> DEFINE q == key \o Tokens(kids[i])
             x == [call |-> "enter", n |-> kids[i], key |-> q, base |-> base, crosses |-> flag]
  <2>6. b[i] = x
    BY DEF Enter
  <2>7. q \in Path /\ Len(key) < Len(q) /\ base \in Path /\ flag \in BOOLEAN
    BY <2>5
  <2> HIDE DEF q
  <2>8. x \in EnterCall(world) /\ x.call = "enter" /\ x.key = q
    BY ONLY <2>1, <2>7 DEF EnterCall
  <2> HIDE DEF x
  <2>9. b[i] \in EnterCall(world) /\ b[i].call = "enter" /\ b[i].key = q /\ q \in Path
           /\ Len(key) < Len(b[i].key)
    BY ONLY <2>6, <2>7, <2>8
  <2>10. QED
    BY <2>9 DEF q
<1>3. \A i \in DOMAIN kids : b[i] \in C
  BY <1>2 DEF Calls
<1> HIDE DEF C
<1>4. kids \in Seq(Node(world))
  OBVIOUS
<1>5. b \in Seq(C) /\ Len(b) = Len(kids)
  BY ONLY <1>1, <1>3, <1>4, Lists
<1>6. DOMAIN kids = 1 .. Len(kids)
  BY ONLY <1>4
<1>7. QED
  BY <1>2, <1>5, <1>6 DEF C, Entering

(* Two sequences and a last element in one. *)
LEMMA Joined ==
  ASSUME NEW C, NEW a \in Seq(C), NEW b \in Seq(C), NEW pro \in C, NEW new, new = a \o b \o << pro >>
  PROVE  /\ new \in Seq(C) /\ Len(a) \in Nat /\ Len(b) \in Nat
         /\ Len(new) = Len(a) + Len(b) + 1 /\ DOMAIN new = 1 .. Len(new)
         /\ new[Len(a) + Len(b) + 1] = pro
         /\ \A k \in 1 .. Len(a) : new[k] = a[k]
         /\ \A k \in 1 .. Len(b) : new[Len(a) + k] = b[k]
<1> DEFINE one == << pro >>
           ab == a \o b
<1>1. one \in Seq(C) /\ Len(one) = 1 /\ one[1] = pro /\ new = ab \o one
  OBVIOUS
<1> HIDE DEF one, ab
<1>2. /\ ab \in Seq(C) /\ Len(ab) = Len(a) + Len(b)
      /\ \A k \in 1 .. Len(a) : k \in 1 .. Len(ab) /\ ab[k] = a[k]
      /\ \A k \in 1 .. Len(b) : Len(a) + k \in 1 .. Len(ab) /\ ab[Len(a) + k] = b[k]
  BY ConcatIndices DEF ab
<1>3. /\ new \in Seq(C) /\ Len(new) = Len(ab) + Len(one)
      /\ \A k \in 1 .. Len(ab) : new[k] = ab[k]
      /\ \A k \in 1 .. Len(one) : new[Len(ab) + k] = one[k]
  <2>1. ab \in Seq(C) /\ one \in Seq(C)
    BY ONLY <1>1, <1>2
  <2>2. /\ ab \o one \in Seq(C) /\ Len(ab \o one) = Len(ab) + Len(one)
        /\ \A k \in 1 .. Len(ab) : (ab \o one)[k] = ab[k]
        /\ \A k \in 1 .. Len(one) : (ab \o one)[Len(ab) + k] = one[k]
    BY ONLY <2>1, ConcatIndices
  <2>3. QED
    BY ONLY <1>1, <2>2
<1>4. 1 \in 1 .. Len(one)
  BY ONLY <1>1
<1>5. new[Len(ab) + 1] = pro /\ Len(new) = Len(ab) + 1
  BY ONLY <1>1, <1>3, <1>4
<1>6. Len(a) \in Nat /\ Len(b) \in Nat /\ DOMAIN new = 1 .. Len(new)
  BY ONLY <1>3, a \in Seq(C), b \in Seq(C)
<1>7. QED
  BY ONLY <1>2, <1>3, <1>5, <1>6

Laid(new, pro, key, refs, A, B) ==
    /\ pro.call = "promote" /\ pro.key = key /\ refs = References(pro.sub.node)
    /\ A \in Nat /\ B \in Nat /\ Len(new) = A + B + 1 /\ DOMAIN new = 1 .. Len(new)
    /\ new[A + B + 1] = pro /\ DOMAIN refs = 1 .. A
    /\ \A k \in 1 .. A : new[k].call = "resolve" /\ new[k].id = << key, k >> /\ new[k].ref = refs[k]
    /\ \A k \in 1 .. B : new[A + k].call = "enter" /\ Len(key) < Len(new[A + k].key)
    /\ \A k \in pro.sub.kids : \E x \in 1 .. B : new[A + x].key = k

(* The calls a build starts with, found by their indices. *)
LEMMA BuildOrder ==
  ASSUME NEW pro, NEW key, NEW refs, NEW A, NEW B, NEW new, Laid(new, pro, key, refs, A, B)
  PROVE  Started(new, pro)
<1>0. /\ pro.call = "promote" /\ pro.key = key /\ refs = References(pro.sub.node)
      /\ A \in Nat /\ B \in Nat /\ Len(new) = A + B + 1 /\ DOMAIN new = 1 .. Len(new)
      /\ new[A + B + 1] = pro /\ DOMAIN refs = 1 .. A
      /\ \A k \in 1 .. A : new[k].call = "resolve" /\ new[k].id = << key, k >> /\ new[k].ref = refs[k]
      /\ \A k \in 1 .. B : new[A + k].call = "enter" /\ Len(key) < Len(new[A + k].key)
      /\ \A k \in pro.sub.kids : \E x \in 1 .. B : new[A + x].key = k
  BY DEF Laid
<1>1. \A i \in 1 .. A + B : i \in 1 .. A \/ \E k \in 1 .. B : i = A + k
  <2> SUFFICES ASSUME NEW i \in 1 .. A + B, i \notin 1 .. A PROVE \E k \in 1 .. B : i = A + k
    OBVIOUS
  <2>1. i - A \in 1 .. B /\ i = A + (i - A)
    BY <1>0
  <2>2. QED
    BY <1>0, <2>1
<1>2. Len(new) - 1 = A + B /\ Len(new) \in Nat /\ Len(new) > 0 /\ new[Len(new)] = pro
  BY <1>0
<1>3. ASSUME NEW i \in 1 .. A + B
      PROVE  \/ /\ new[i].call = "resolve" /\ new[i].id[1] = pro.key
                /\ new[i].id[2] \in DOMAIN refs /\ new[i].ref = refs[new[i].id[2]]
             \/ new[i].call = "enter" /\ Len(pro.key) < Len(new[i].key)
  <2>1. CASE i \in 1 .. A
    BY <1>0, <2>1
  <2>2. ASSUME NEW k \in 1 .. B, i = A + k
        PROVE  new[i].call = "enter" /\ Len(pro.key) < Len(new[i].key)
    BY <1>0, <2>2
  <2>3. QED
    BY <1>0, <1>1, <2>1, <2>2
<1>4. ASSUME NEW j \in DOMAIN new, NEW i \in 1 .. j - 1, new[j].call = "resolve"
      PROVE  new[i].call = "resolve"
  <2>1. j # A + B + 1
    BY <1>0, <1>4
  <2>2. j \in 1 .. A + B
    <3>1. j \in 1 .. A + B + 1 /\ A \in Nat /\ B \in Nat
      BY <1>0
    <3>2. QED
      BY ONLY <2>1, <3>1
  <2>3. j \in 1 .. A
    BY <1>0, <1>1, <1>4, <2>2
  <2>4. i \in 1 .. A
    BY <1>0, <2>3
  <2>5. QED
    BY <1>0, <2>4
<1>5. ASSUME NEW k \in pro.sub.kids
      PROVE  \E i \in 1 .. A + B : new[i].call = "enter" /\ new[i].key = k
  <2>1. PICK x \in 1 .. B : new[A + x].key = k
    BY <1>0
  <2>2. A + x \in 1 .. A + B
    BY <1>0
  <2>3. QED
    BY <1>0, <2>1, <2>2
<1>6. ASSUME NEW i \in DOMAIN refs
      PROVE  \E x \in 1 .. A + B : new[x].call = "resolve" /\ new[x].id = << pro.key, i >>
  <2>1. i \in 1 .. A /\ i \in 1 .. A + B
    BY <1>0
  <2>2. QED
    BY <1>0, <2>1
<1>7. /\ \A k \in pro.sub.kids : \E i \in 1 .. Len(new) - 1 : new[i].call = "enter" /\ new[i].key = k
      /\ \A i \in DOMAIN refs :
            \E x \in 1 .. Len(new) - 1 : new[x].call = "resolve" /\ new[x].id = << pro.key, i >>
  BY ONLY <1>2, <1>5, <1>6
<1>8. /\ \A i \in 1 .. Len(new) - 1 :
            \/ /\ new[i].call = "resolve" /\ new[i].id[1] = pro.key
               /\ new[i].id[2] \in DOMAIN refs /\ new[i].ref = refs[new[i].id[2]]
            \/ new[i].call = "enter" /\ Len(pro.key) < Len(new[i].key)
      /\ \A j \in DOMAIN new : \A i \in 1 .. j - 1 : new[j].call = "resolve" => new[i].call = "resolve"
  BY ONLY <1>2, <1>3, <1>4
<1>9. refs = References(pro.sub.node) /\ DOMAIN new = 1 .. Len(new)
  BY <1>0
<1>10. QED
  BY ONLY <1>2, <1>7, <1>8, <1>9 DEF Started

(* The calls that build a subschema take the place of the one that enters it. *)
LEMMA EnterStarts ==
  ASSUME Running, EnterNode, Call.key \notin DOMAIN cache, ~InFlight(Call.key)
  PROVE  \E pro \in PromoteCall(world) : \E new \in Seq(Calls(world)) :
            pro.key = Call.key /\ Started(new, pro) /\ Then(new)
<1> DEFINE n == Call.n
           key == Call.key
           draft == DraftAt(n)
           alone == RefOnly(S(n), draft)
           uri == IF alone THEN << >> ELSE Applied(n, Call.base)
           base == IF uri = << >> THEN Call.base ELSE uri
           kids == IF alone THEN << >> ELSE Kids(n, {"applied"})
           crosses == Call.crosses \/ uri # << >>
           sub == [node |-> n, base |-> base, crosses |-> crosses,
                   kids |-> {key \o Tokens(kids[i]) : i \in DOMAIN kids}]
           pro == [call |-> "promote", key |-> key, sub |-> sub]
           flag == FALSE
           a == [i \in DOMAIN S(n).refs |->
                    [call |-> "resolve", id |-> << key, i >>, ref |-> S(n).refs[i],
                     base |-> base, draft |-> draft]]
           b == [i \in DOMAIN kids |-> Enter(kids[i], key \o Tokens(kids[i]), base, flag)]
           new == a \o b \o << pro >>
           C == Calls(world)
<1>1. /\ WorldOK(world) /\ MapOK(world, rm) /\ Call.n \in Node(world) /\ Call.key \in Path
      /\ Call.base \in Path /\ Call.crosses \in BOOLEAN
  <2>1. Call \in EnterCall(world)
    BY FirstCall, CallKinds DEF EnterNode, At, Call
  <2>2. QED
    BY <2>1 DEF EnterCall, Running, BInv
<1>2. Then(new)
  BY DEF EnterNode
<1>3. draft \in Draft /\ base \in Path /\ crosses \in BOOLEAN /\ flag \in BOOLEAN
  BY <1>1, EnteredTyped
<1>4. kids \in Seq(Node(world)) /\ KidsOf(kids, n)
  BY <1>1, KidsTyped DEF KidsOf
<1>5. n \in Node(world) /\ key \in Path /\ key \notin DOMAIN cache
  BY <1>1
<1> HIDE DEF draft, base, kids, crosses, flag, n, key
<1>6. /\ a \in Seq(C) /\ Len(a) = Len(S(n).refs) /\ DOMAIN S(n).refs = 1 .. Len(S(n).refs)
      /\ \A i \in DOMAIN S(n).refs : /\ a[i].call = "resolve" /\ a[i].id = << key, i >>
                                     /\ a[i].ref = S(n).refs[i]
  <2> HIDE DEF a, b, new, pro, sub
  <2>1. a = [i \in DOMAIN S(n).refs |->
                [call |-> "resolve", id |-> << key, i >>, ref |-> S(n).refs[i],
                 base |-> base, draft |-> draft]]
    BY DEF a
  <2>2. QED
    BY <1>1, <1>3, <1>5, <2>1, ResolveCalls
<1>7. /\ b \in Seq(C) /\ Len(b) = Len(kids) /\ DOMAIN kids = 1 .. Len(kids)
      /\ \A i \in DOMAIN kids : /\ b[i].call = "enter" /\ b[i].key = key \o Tokens(kids[i])
                                /\ key \o Tokens(kids[i]) \in Path /\ Len(key) < Len(b[i].key)
  <2> HIDE DEF a, b, new, pro, sub
  <2>1. b = [i \in DOMAIN kids |-> Enter(kids[i], key \o Tokens(kids[i]), base, flag)]
    BY DEF b
  <2>2. b \in Seq(Calls(world)) /\ Entering(b, kids, key)
    BY <1>1, <1>3, <1>4, <1>5, <2>1, EnterCalls
  <2>3. QED
    BY <2>2 DEF Entering
<1> HIDE DEF a, b
<1>8. /\ pro \in PromoteCall(world) /\ pro.call = "promote" /\ pro.key = key /\ pro.sub.node = n
      /\ pro.sub.kids = {key \o Tokens(kids[i]) : i \in DOMAIN kids}
  <2>1. sub.kids \subseteq Path /\ sub.kids = {key \o Tokens(kids[i]) : i \in DOMAIN kids} /\ sub.node = n
    BY <1>7
  <2>2. sub \in Subschema(world)
    BY <1>3, <1>5, <2>1 DEF Subschema
  <2> HIDE DEF sub
  <2>3. QED
    BY <1>5, <2>1, <2>2 DEF PromoteCall
<1> HIDE DEF pro, sub
<1>9. pro \in PromoteCall(world) /\ new \in Seq(Calls(world)) /\ Started(new, pro)
  <2>1. pro \in C
    BY <1>8 DEF Calls
  <2>2. new = a \o b \o << pro >>
    OBVIOUS
  <2> HIDE DEF new, C
  <2>12. a \in Seq(C) /\ b \in Seq(C)
    BY ONLY <1>6, <1>7
  <2>3. /\ new \in Seq(C) /\ Len(a) \in Nat /\ Len(b) \in Nat
        /\ Len(new) = Len(a) + Len(b) + 1 /\ DOMAIN new = 1 .. Len(new)
        /\ new[Len(a) + Len(b) + 1] = pro
        /\ \A k \in 1 .. Len(a) : new[k] = a[k]
        /\ \A k \in 1 .. Len(b) : new[Len(a) + k] = b[k]
    BY ONLY <2>1, <2>2, <2>12, Joined
  <2> DEFINE refs == S(n).refs
             A == Len(a)
             B == Len(b)
  <2>4. A \in Nat /\ B \in Nat /\ Len(new) = A + B + 1 /\ new[A + B + 1] = pro /\ DOMAIN new = 1 .. Len(new)
    BY ONLY <2>3
  <2>5. DOMAIN refs = 1 .. A /\ DOMAIN kids = 1 .. B
    BY ONLY <1>6, <1>7
  <2>6. \A k \in 1 .. A : new[k].call = "resolve" /\ new[k].id = << key, k >> /\ new[k].ref = refs[k]
    BY ONLY <1>6, <2>3, <2>5
  <2>7. \A k \in 1 .. B : /\ new[A + k].call = "enter" /\ Len(key) < Len(new[A + k].key)
                          /\ new[A + k].key = key \o Tokens(kids[k])
    <3>1. ASSUME NEW k \in 1 .. B
          PROVE  /\ new[A + k].call = "enter" /\ Len(key) < Len(new[A + k].key)
                 /\ new[A + k].key = key \o Tokens(kids[k])
      <4>1. new[A + k] = b[k] /\ k \in DOMAIN kids
        BY ONLY <2>3, <2>5, k \in 1 .. B
      <4>2. b[k].call = "enter" /\ b[k].key = key \o Tokens(kids[k]) /\ Len(key) < Len(b[k].key)
        BY ONLY <1>7, <4>1
      <4>3. QED
        BY ONLY <4>1, <4>2
    <3>2. QED
      BY <3>1
  <2>8. \A k \in pro.sub.kids : \E x \in 1 .. B : new[A + x].key = k
    BY ONLY <1>8, <2>5, <2>7
  <2>9. refs = References(pro.sub.node)
    BY <1>8 DEF References, S
  <2> HIDE DEF refs, A, B
  <2>10. Started(new, pro)
    <3>1. Laid(new, pro, key, refs, A, B)
      BY ONLY <1>8, <2>4, <2>5, <2>6, <2>7, <2>8, <2>9 DEF Laid
    <3>2. QED
      BY ONLY <3>1, BuildOrder
  <2>11. QED
    BY <1>8, <2>3, <2>10 DEF C
<1>10. pro.key = Call.key
  BY <1>8 DEF key
<1> HIDE DEF new, C
<1>11. QED
  BY <1>2, <1>9, <1>10

(* A subschema that is known or being built is entered no further; any other
   starts to be built. *)
LEMMA EnterNodeStep ==
  ASSUME Running, EnterNode
  PROVE  BInv'
<1>1. /\ Call.call = "enter" /\ UNCHANGED << rm, cache, eval, seen, work, loads, faults >>
      /\ Call \in EnterCall(world)
  BY FirstCall, CallKinds DEF EnterNode, At, Call
<1>2. /\ WorldOK(world) /\ MapOK(world, rm) /\ ~rm.failed /\ Fetching(world, rm, loads)
      /\ EvalOK(world, eval) /\ CacheOK(world, cache, eval) /\ work \in Seq(DOMAIN eval)
      /\ faults \in 0 .. MaxFaults /\ SeenOK(world, cache, eval, todo, seen)
      /\ TodoOK(world, rm, cache, eval, todo)
  BY DEF Running, BInv
<1>3. /\ todo \in Seq(Calls(world)) /\ Call = todo[1] /\ Call = Head(todo) /\ todo # << >>
      /\ outcome = "running"
  BY FirstCall DEF Running, Call
(* It suffices that the calls left are right and no record is lost. *)
<1>5. ASSUME NEW p, todo' = p, outcome' = outcome, TodoOK(world, rm, cache, eval, p), SettlesKept(todo, p)
      PROVE  BInv'
  <2>1. SeenOK(world, cache, eval, p, seen)
    BY <1>5, StillSeen
  <2>2. EndOK(cache, p, seen, outcome')
    BY <1>3, <1>5 DEF EndOK
  <2>3. /\ TodoOK(world, rm', cache', eval', todo') /\ SeenOK(world, cache', eval', todo', seen')
        /\ EndOK(cache', todo', seen', outcome')
    BY <1>1, <1>5, <2>1, <2>2
  <2>4. QED
    BY <1>1, <1>2, <2>3, Assembled DEF Running
<1>6. CASE Call.key \in DOMAIN cache \/ InFlight(Call.key)
  <2> DEFINE p == Tail(todo)
  <2>1. todo' = p /\ outcome' = outcome
    BY <1>6, Popped DEF EnterNode
  <2>2. /\ Call.call \in Inner /\ Call.call # "promote" /\ Call.call # "resolve" /\ p = Tail(todo)
        /\ Learned(world, rm, rm)
    BY <1>1, LearnedNothing DEF Inner
  <2> HIDE DEF p
  <2>3. TodoOK(world, rm, cache, eval, p) /\ SettlesKept(todo, p)
    BY <1>6, <2>2, InnerDone
  <2>4. QED
    BY <1>5, <2>1, <2>3
<1>7. CASE ~(Call.key \in DOMAIN cache \/ InFlight(Call.key))
  <2>1. PICK pro \in PromoteCall(world) : \E new \in Seq(Calls(world)) :
               pro.key = Call.key /\ Started(new, pro) /\ Then(new)
    BY <1>7, EnterStarts
  <2>2. PICK new \in Seq(Calls(world)) : pro.key = Call.key /\ Started(new, pro) /\ Then(new)
    BY <2>1
  <2> DEFINE p == new \o Tail(todo)
  <2>3. todo' = p /\ outcome' = outcome
    BY <2>2 DEF Then
  <2>4. p = new \o Tail(todo)
    OBVIOUS
  <2> HIDE DEF p
  <2>5. TodoOK(world, rm, cache, eval, p)
    BY <1>1, <1>7, <2>2, <2>4, StartedCalls
  <2>6. SettlesKept(todo, p)
    <3> DEFINE C == Calls(world)
    <3>1. todo \in Seq(C) /\ new \in Seq(C) /\ Head(todo).call # "settle"
      BY <1>1, <1>3
    <3> HIDE DEF C
    <3>2. QED
      BY <1>3, <2>4, <3>1, PushSettles
  <2>7. QED
    BY <1>5, <2>3, <2>5, <2>6
<1>8. QED
  BY <1>6, <1>7

-----------------------------------------------------------------------------
(* The specification *)

(* An empty map is well formed. *)
LEMMA EmptyMapOK ==
  ASSUME NEW w
  PROVE  MapOK(w, EmptyMap) /\ ~EmptyMap.failed /\ DOMAIN EmptyMap.owner = {}
<1>1. DOMAIN Empty = {}
  BY DEF Empty
<1>2. /\ EmptyMap.byURI = Empty /\ EmptyMap.order = << >> /\ EmptyMap.owner = Empty /\ EmptyMap.reg = Empty
      /\ ~EmptyMap.failed /\ Shaped(EmptyMap)
  BY DEF EmptyMap, Shaped
<1>3. IsFiniteSet({}) /\ Cardinality({}) = 0
  BY FS_EmptySet
<1>4. << >> \in Seq(Path) /\ ToSet(<< >>) = {} /\ Len(<< >>) = 0
  BY DEF ToSet
<1>5. Listed(EmptyMap)
  BY <1>1, <1>2, <1>3, <1>4 DEF Listed
<1>6. QED
  BY <1>1, <1>2, <1>5 DEF MapOK, UrisOK, OwnersOK, ResourcesOK

(* The calls Compile starts with, one registered document after another first. *)
LEMMA FirstCalls ==
  ASSUME Init
  PROVE  TodoOK(world, EmptyMap, Empty, Empty, todo)
<1>1. WorldOK(world)
  BY WorldAssumption DEF Init
<1> DEFINE seeds == [i \in DOMAIN world.seeds |-> Seed(world.seeds[i])]
           a == Just("walk")
           b == Bind(Root, RootURI, {}, RootDraft)
           c == Just("vocabularies")
           d == Enter(Root, << "#" >>, RootURI, TRUE)
           e == Just("round")
           rest == << a, b, c, d, e >>
           C == Calls(world)
<1>2. todo = seeds \o rest
  BY DEF Init
<1>3. Root \in Node(world) /\ RootURI \in Path /\ RootDraft \in Draft /\ << "#" >> \in Path
  BY <1>1, RootTyped, AlphabetAssumption DEF Path
<1>4. /\ a.call = "walk" /\ b.call = "bind" /\ c.call = "vocabularies" /\ d.call = "enter" /\ e.call = "round"
      /\ a \in C /\ c \in C /\ e \in C
  BY DEF Just, Bind, Enter, Calls, PlainCall
<1>5. b \in C
  BY <1>3 DEF Bind, BindCall, Calls
<1>6. d \in C
  BY <1>3 DEF Enter, EnterCall, Calls
<1> HIDE DEF a, b, c, d, e
<1>7. /\ rest \in Seq(C) /\ Len(rest) = 5
      /\ rest[1] = a /\ rest[2] = b /\ rest[3] = c /\ rest[4] = d /\ rest[5] = e
  BY <1>4, <1>5, <1>6
<1> DEFINE D == [uri : Path, doc : DOMAIN world.docs \ {world.doc}]
<1>8. world.seeds \in Seq(D)
         /\ \A i, j \in DOMAIN world.seeds : world.seeds[i].doc = world.seeds[j].doc => i = j
  BY <1>1 DEF WorldOK
<1>9. ASSUME NEW i \in DOMAIN world.seeds
      PROVE  /\ seeds[i].call = "seed" /\ seeds[i].doc = world.seeds[i].doc /\ seeds[i] \in C
             /\ \A u \in DOMAIN world.remote : world.remote[u] # seeds[i].doc
  <2>1. world.seeds[i] \in D
    <3> DEFINE s == world.seeds
    <3>1. s \in Seq(D) /\ i \in DOMAIN s
      BY <1>8
    <3> HIDE DEF s, D
    <3>2. s[i] \in D
      BY ONLY <3>1
    <3>3. QED
      BY <3>2 DEF s
  <2>2. seeds[i] \in SeedCall(world) /\ seeds[i].call = "seed" /\ seeds[i].doc = world.seeds[i].doc
    BY <2>1 DEF Seed, SeedCall
  <2>3. QED
    BY <1>1, <2>2 DEF WorldOK, Calls
<1>10. DOMAIN seeds = DOMAIN world.seeds /\ seeds = [i \in DOMAIN world.seeds |-> seeds[i]]
  OBVIOUS
<1> HIDE DEF seeds, rest, C, D
<1>11. seeds \in Seq(C) /\ Len(seeds) = Len(world.seeds) /\ DOMAIN seeds = 1 .. Len(seeds)
          /\ Len(seeds) \in Nat
  <2>1. seeds \in Seq(C) /\ Len(seeds) = Len(world.seeds)
    <3>1. \A i \in DOMAIN world.seeds : seeds[i] \in C
      BY <1>9
    <3> DEFINE s == world.seeds
    <3>2. s \in Seq(D) /\ DOMAIN seeds = DOMAIN s /\ seeds = [i \in DOMAIN s |-> seeds[i]]
          /\ \A i \in DOMAIN s : seeds[i] \in C
      BY ONLY <1>8, <1>10, <3>1
    <3> HIDE DEF s
    <3>3. seeds \in Seq(C) /\ Len(seeds) = Len(s)
      BY ONLY <3>2, Lists
    <3>4. QED
      BY <3>3 DEF s
  <2>2. QED
    BY ONLY <2>1
<1> DEFINE N == Len(seeds)
<1>12. /\ todo \in Seq(C) /\ Len(todo) = N + 5 /\ DOMAIN todo = 1 .. N + 5 /\ N \in Nat
       /\ \A k \in 1 .. N : todo[k] = seeds[k]
       /\ todo[N + 1] = a /\ todo[N + 2] = b /\ todo[N + 3] = c /\ todo[N + 4] = d /\ todo[N + 5] = e
  <2>1. /\ seeds \o rest \in Seq(C) /\ Len(seeds \o rest) = Len(seeds) + Len(rest)
        /\ \A k \in 1 .. Len(seeds) : (seeds \o rest)[k] = seeds[k]
        /\ \A k \in 1 .. Len(rest) : (seeds \o rest)[Len(seeds) + k] = rest[k]
    <3>1. seeds \in Seq(C) /\ rest \in Seq(C)
      BY ONLY <1>7, <1>11
    <3>2. QED
      BY ONLY <3>1, ConcatIndices
  <2>2. /\ todo \in Seq(C) /\ Len(todo) = N + 5 /\ \A k \in 1 .. N : todo[k] = seeds[k]
        /\ \A k \in 1 .. 5 : todo[N + k] = rest[k]
    BY ONLY <1>2, <1>7, <2>1
  <2>3. DOMAIN todo = 1 .. N + 5 /\ N \in Nat
    BY ONLY <1>11, <2>2
  <2>4. QED
    BY ONLY <1>7, <2>2, <2>3
<1>13. ASSUME NEW k \in DOMAIN todo
       PROVE  k \in 1 .. N \/ k = N + 1 \/ k = N + 2 \/ k = N + 3 \/ k = N + 4 \/ k = N + 5
  <2> HIDE DEF N
  <2>1. QED
    BY ONLY <1>12, k \in DOMAIN todo
<1>14. /\ \A k \in DOMAIN todo : todo[k].call \notin {"resolve", "promote", "settle", "targets", "resource"}
       /\ \A k \in DOMAIN todo : todo[k].call = "seed" => k \in 1 .. N
       /\ \A k \in DOMAIN todo : todo[k].call = "walk" => k = N + 1
       /\ \A k \in DOMAIN todo : todo[k].call = "round" => k = N + 5
       /\ \A k \in 1 .. N : todo[k].call = "seed"
  <2> SUFFICES ASSUME NEW k \in DOMAIN todo
               PROVE  /\ todo[k].call \notin {"resolve", "promote", "settle", "targets", "resource"}
                      /\ todo[k].call = "seed" => k \in 1 .. N
                      /\ todo[k].call = "walk" => k = N + 1
                      /\ todo[k].call = "round" => k = N + 5
                      /\ k \in 1 .. N => todo[k].call = "seed"
    BY <1>12
  <2>1. CASE k \in 1 .. N
    BY <1>9, <1>10, <1>11, <1>12, <2>1
  <2>2. CASE k \notin 1 .. N
    <3> HIDE DEF N
    <3>1. QED
      BY <1>4, <1>12, <1>13, <2>2
  <2>3. QED
    BY <2>1, <2>2
<1>15. Ordered(todo)
  <2> SUFFICES ASSUME NEW j \in DOMAIN todo, NEW i \in 1 .. j - 1 PROVE InOrder(todo[i], todo[j])
    BY DEF Ordered
  <2>0. i \in DOMAIN todo /\ i < j /\ i \in Nat /\ j \in Nat /\ j <= N + 5
    <3> HIDE DEF N
    <3>1. j \in 1 .. N + 5 /\ N \in Nat /\ DOMAIN todo = 1 .. N + 5
      BY <1>12
    <3>2. QED
      BY ONLY <3>1, i \in 1 .. j - 1
  <2>1. todo[i].call # "round"
    <3> HIDE DEF N
    <3>1. i # N + 5
      BY <1>12, <2>0
    <3>2. QED
      BY <1>14, <2>0, <3>1
  <2>2. todo[j].call = "seed" => todo[i].call = "seed" /\ todo[i].doc # todo[j].doc
    <3> SUFFICES ASSUME todo[j].call = "seed" PROVE todo[i].call = "seed" /\ todo[i].doc # todo[j].doc
      OBVIOUS
    <3> HIDE DEF N
    <3>1. j \in 1 .. N
      BY <1>14
    <3>2. i \in 1 .. N /\ i # j
      BY <1>12, <2>0, <3>1
    <3>3. i \in DOMAIN world.seeds /\ j \in DOMAIN world.seeds
      BY <1>10, <1>11, <3>1, <3>2 DEF N
    <3>4. todo[i].doc = world.seeds[i].doc /\ todo[j].doc = world.seeds[j].doc
      BY <1>9, <1>12, <3>1, <3>2, <3>3
    <3>5. QED
      BY <1>8, <1>14, <3>2, <3>3, <3>4
  <2>3. todo[j].call = "walk" => todo[i].call = "seed"
    <3> SUFFICES ASSUME todo[j].call = "walk" PROVE todo[i].call = "seed"
      OBVIOUS
    <3> HIDE DEF N
    <3>1. j = N + 1
      BY <1>14
    <3>2. i \in 1 .. N
      BY <1>12, <2>0, <3>1
    <3>3. QED
      BY <1>14, <3>2
  <2>4. todo[j].call \notin {"resolve", "promote"}
    BY <1>14
  <2>5. QED
    BY <2>1, <2>2, <2>3, <2>4 DEF InOrder
<1>16. \A n : Unwalked(world, EmptyMap, n)
  BY EmptyMapOK DEF Unwalked
<1>17. ASSUME NEW k \in DOMAIN todo PROVE CallReady(world, EmptyMap, Empty, Empty, todo[k])
  <2>1. CASE todo[k].call = "seed"
    <3>1. k \in 1 .. N
      BY <1>14, <2>1
    <3>2. k \in DOMAIN world.seeds /\ todo[k] = seeds[k]
      BY <1>10, <1>11, <1>12, <3>1
    <3>3. \A u \in DOMAIN world.remote : world.remote[u] # todo[k].doc
      BY <1>9, <3>2
    <3>4. QED
      BY <1>16, <2>1, <3>3 DEF CallReady
  <2>2. CASE todo[k].call = "walk"
    BY <1>16, <2>2 DEF CallReady
  <2>3. CASE todo[k].call \notin {"seed", "walk"}
    BY <1>14, <2>3 DEF CallReady
  <2>4. QED
    BY <2>1, <2>2, <2>3
<1>18. QED
  BY <1>12, <1>14, <1>15, <1>17 DEF TodoOK, C

(* The invariant holds when Compile is called. *)
LEMMA InitKeeps ==
  ASSUME Init
  PROVE  BInv
<1>1. /\ rm = EmptyMap /\ cache = Empty /\ eval = Empty /\ seen = {} /\ work = << >> /\ loads = << >>
      /\ faults = MaxFaults /\ outcome = "running"
  BY DEF Init
<1>2. WorldOK(world) /\ MaxFaults \in Nat
  BY WorldAssumption, AlphabetAssumption DEF Init
<1>3. DOMAIN Empty = {}
  BY DEF Empty
<1>4. MapOK(world, rm) /\ ~rm.failed /\ DOMAIN rm.owner = {}
  BY <1>1, EmptyMapOK
<1>5. Fetching(world, rm, loads)
  BY <1>1, <1>4 DEF Fetching, Unwalked
<1>6. EvalOK(world, eval) /\ CacheOK(world, cache, eval)
  BY <1>1, <1>3, FS_EmptySet DEF EvalOK, CacheOK
<1>7. TodoOK(world, rm, cache, eval, todo)
  BY <1>1, FirstCalls
<1>8. SeenOK(world, cache, eval, todo, seen) /\ EndOK(cache, todo, seen, outcome)
  BY <1>1 DEF SeenOK, EndOK
<1>9. work \in Seq(DOMAIN eval) /\ faults \in 0 .. MaxFaults
  BY <1>1, <1>2
<1>10. QED
  BY <1>2, <1>4, <1>5, <1>6, <1>7, <1>8, <1>9 DEF BInv

(* Every step keeps it. *)
LEMMA NextKeeps ==
  ASSUME BInv, [Next]_vars
  PROVE  BInv'
<1>1. CASE UNCHANGED vars
  <2>1. /\ world' = world /\ rm' = rm /\ loads' = loads /\ eval' = eval /\ cache' = cache /\ todo' = todo
        /\ seen' = seen /\ work' = work /\ outcome' = outcome /\ faults' = faults
    BY <1>1 DEF vars, given
  <2>2. QED
    BY <2>1 DEF BInv
<1>2. CASE Step
  <2>1. todo # << >> /\ UNCHANGED given
    BY <1>2 DEF Step, At, Walks, WalkSeed, WalkRoot, BindNode, BindReference, Vocabularies, EnterNode,
                ResolveReference, Promote, Round, BuildTargets, Scan, ScanResource, SettleTarget
  <2>2. Running
    BY <2>1 DEF Running
  <2>3. QED
    BY <1>2, <2>2, WalkSeedStep, WalkRootStep, BindNodeStep, BindReferenceStep, VocabulariesStep,
       EnterNodeStep, ResolveReferenceStep, PromoteStep, RoundStep, BuildTargetsStep, ScanStep,
       ScanResourceStep, SettleTargetStep DEF Step
<1>3. CASE Returned
  BY <1>1, <1>3 DEF Returned
<1>4. QED
  BY <1>1, <1>2, <1>3 DEF Next

(* Anchors stay in their resource. *)
LEMMA AnchorsFollow ==
  ASSUME BInv
  PROVE  AnchorsScoped
<1>1. MapOK(world, rm)
  BY DEF BInv
<1>2. \A r \in DOMAIN rm.reg : DataOK(world, rm, r, rm.reg[r])
  BY <1>1 DEF MapOK, ResourcesOK
<1>3. QED
  BY <1>2 DEF AnchorsScoped, DataOK

(* A compilation that ended has visited every subschema and has no call left,
   so every target has been recorded. *)
LEMMA TargetsFollow ==
  ASSUME BInv
  PROVE  TargetsSettled
<1> SUFFICES ASSUME outcome = "compiled", NEW k \in DOMAIN cache, NEW i \in DOMAIN S(cache[k].node).refs
             PROVE  /\ S(cache[k].node).refs[i].kw = "$ref" => << k, i >> \in DOMAIN eval
                    /\ << k, i >> \in DOMAIN eval =>
                          eval[<< k, i >>].target \in
                             {None} \cup eval[<< k, i >>].built \cup eval[<< k, i >>].failed
  BY DEF TargetsSettled
<1>1. CacheOK(world, cache, eval) /\ SeenOK(world, cache, eval, todo, seen)
         /\ EndOK(cache, todo, seen, outcome)
  BY DEF BInv
<1>2. todo = << >> /\ k \in seen
  BY <1>1 DEF EndOK
<1>3. i \in DOMAIN world.schema[cache[k].node].refs /\ S(cache[k].node) = world.schema[cache[k].node]
  BY DEF S
<1>4. S(cache[k].node).refs[i].kw = "$ref" => << k, i >> \in DOMAIN eval
  BY <1>1, <1>3 DEF CacheOK
<1>5. ASSUME << k, i >> \in DOMAIN eval, eval[<< k, i >>].target # None
      PROVE  eval[<< k, i >>].target \in eval[<< k, i >>].built \cup eval[<< k, i >>].failed
  BY <1>1, <1>2, <1>3, <1>5 DEF SeenOK
<1>6. QED
  BY <1>4, <1>5

(* What the invariant says of the state a caller of Compile sees. *)
LEMMA InvariantMeans ==
  ASSUME BInv
  PROVE  Consistent
<1>1. /\ WorldOK(world) /\ MapOK(world, rm) /\ ~rm.failed /\ EvalOK(world, eval)
      /\ CacheOK(world, cache, eval) /\ EndOK(cache, todo, seen, outcome) /\ faults \in 0 .. MaxFaults
      /\ Fetching(world, rm, loads)
  BY DEF BInv
<1>2. TypeOK
  <2>1. \A u \in DOMAIN rm.byURI : rm.byURI[u] \in DOMAIN rm.reg /\ rm.byURI[u].uri = u
    BY <1>1 DEF MapOK, UrisOK
  <2>2. DOMAIN rm.owner \subseteq DOMAIN world.schema
    BY <1>1 DEF MapOK, OwnersOK, Node
  <2>3. Len(rm.order) = Cardinality(DOMAIN rm.byURI) /\ ToSet(rm.order) = DOMAIN rm.byURI
    BY <1>1 DEF MapOK, Listed
  <2>4. \A k \in DOMAIN cache : cache[k].node \in DOMAIN world.schema /\ cache[k].kids \subseteq DOMAIN cache
    BY <1>1 DEF CacheOK, Subschema, Node
  <2>5. ASSUME NEW id \in DOMAIN eval
        PROVE  /\ eval[id].target \in DOMAIN world.schema \cup {None}
               /\ eval[id].built \cup eval[id].failed \subseteq DOMAIN world.schema
    <3>1. eval[id] \in Evaluator(world)
      BY <1>1 DEF EvalOK
    <3>2. QED
      BY <3>1 DEF Evaluator, Node
  <2>6. outcome # "running" => todo = << >>
    BY <1>1 DEF EndOK
  <2>7. QED
    BY <1>1, <2>1, <2>2, <2>3, <2>4, <2>5, <2>6 DEF TypeOK
<1>3. FetchedOnce
  BY <1>1 DEF Fetching, FetchedOnce
<1>4. QED
  BY <1>2, <1>3, AnchorsFollow, TargetsFollow DEF Consistent

(* Whatever the documents, the references between them and the failures of the
   loader, what a compile keeps agrees at every moment of it: the resource map
   (walkDocument, openResourceIfNeeded, registerAnchors), the documents fetched
   (fetchExternalResource), the cache (buildSubschemaIn) and, when Compile
   returns, the targets built (buildAll). *)
THEOREM WhatCompileKeepsAgrees == Spec => []Consistent
<1>1. Init => BInv
  BY InitKeeps
<1>2. BInv /\ [Next]_vars => BInv'
  BY NextKeeps
<1>3. BInv => Consistent
  BY InvariantMeans
<1>4. QED
  BY <1>1, <1>2, <1>3, PTL DEF Spec

(* Among it: however often a failing build is abandoned, with all the builds it
   is part of, and entered again, no target of a reference is forgotten. *)
THEOREM EveryTargetSettled == Spec => []TargetsSettled
<1>1. Consistent => TargetsSettled
  BY DEF Consistent
<1>2. QED
  BY <1>1, WhatCompileKeepsAgrees, PTL

(* And one compilation asks the loader for a document at most once, also when
   the walk of it failed or the reference to it failed. *)
THEOREM NothingFetchedTwice == Spec => []FetchedOnce
<1>1. Consistent => FetchedOnce
  BY DEF Consistent
<1>2. QED
  BY <1>1, WhatCompileKeepsAgrees, PTL
=============================================================================
