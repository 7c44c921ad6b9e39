---------------------------- MODULE Loaders_proofs ----------------------------
(***************************************************************************)
(* Proofs about Loaders for chains of any length, any URIs, directories,    *)
(* links and files, and any changes of the file system.                     *)
(***************************************************************************)
EXTENDS Loaders, Recursion_proofs

(* An answer that is due, and is either the rejection or none at all, keeps    *)
(* the invariant: it ends the chain or is added to the rejections before it.   *)
LEMMA AnswerStep ==
  ASSUME ChainInv, pc # "returned", Len(asked) < Len(chain),
         NEW r, r.kind = "rejected" => r = Rejected, Answers(r)
  PROVE  ChainInv'
<1>1. chain' = chain /\ Len(chain) \in Nat
  BY ChainAssumption DEF Answers, ChainInv
<1>2. asked \in Seq({Rejected}) /\ Len(asked) \in Nat
  BY DEF ChainInv
<1>3. asked \in Seq({Rejected, r})
  BY <1>2, SeqMonotonic
<1>4. /\ Len(asked') = Len(asked) + 1
      /\ asked'[Len(asked')] = r
      /\ \A i \in 1..Len(asked) : asked'[i] = Rejected
      /\ DOMAIN asked' = 1..Len(asked) + 1
  BY <1>2, <1>3, AppendProperties DEF Answers
<1>5. CASE r.kind # "rejected" \/ Len(asked') = Len(chain)
  <2>1. pc' = "returned" /\ ret' = r
    BY <1>5 DEF Answers
  <2>2. r.kind = "rejected" => Len(asked') = Len(chain)
    BY <1>5
  <2>3. \A i \in DOMAIN asked' : asked'[i].kind # "rejected" => i = Len(asked') /\ r = asked'[i]
    BY <1>2, <1>4 DEF Rejected
  <2>4. QED
    BY <1>1, <2>1, <2>2, <2>3 DEF ChainInv, FailureSurfaces
<1>6. CASE r.kind = "rejected" /\ Len(asked') # Len(chain)
  <2>1. pc' = "next" /\ r = Rejected
    BY <1>6 DEF Answers
  <2>2. asked' \in Seq({Rejected})
    BY <1>2, <2>1, AppendProperties DEF Answers
  <2>3. Len(asked') <= Len(chain)
    BY <1>1, <1>2, <1>4, <1>6
  <2>4. QED
    BY <1>1, <2>1, <2>2, <2>3 DEF ChainInv, FailureSurfaces
<1>7. QED
  BY <1>5, <1>6

(* What the invariant speaks of is untouched: chain, answers, result, and      *)
(* whether FileLoader is at work.                                              *)
LEMMA QuietStep ==
  ASSUME ChainInv, UNCHANGED <<chain, asked, ret>>, pc # "returned",
         pc' \in {"next", "path", "stat", "open", "read"},
         pc' # "next" => Len(asked) < Len(chain)
  PROVE  ChainInv'
BY DEF ChainInv, FailureSurfaces

(* Every step keeps ChainInv. *)
LEMMA ChainStep ==
  ASSUME ChainInv, [Next]_vars
  PROVE  ChainInv'
<1>1. CASE EmptyChain
  <2>1. asked = <<>> /\ chain = <<>>
    BY <1>1, ChainAssumption DEF EmptyChain, ChainInv
  <2>2. QED
    BY <1>1, <2>1 DEF EmptyChain, ChainInv, FailureSurfaces, Rejected
<1>2. CASE AskMap \/ AskDefault \/ AskEmbed \/ AskDisabled
  <2>1. PICK r : Answers(r) /\ (r.kind = "rejected" => r = Rejected)
    BY <1>2 DEF AskMap, AskDefault, AskEmbed, AskDisabled, MapLoad, DefaultLoad, EmbedLoad,
                Data, Failed, Rejected
  <2>2. pc # "returned" /\ Len(asked) < Len(chain)
    BY <1>2 DEF AskMap, AskDefault, AskEmbed, AskDisabled, Asking
  <2>3. QED
    BY <2>1, <2>2, AnswerStep
<1>3. CASE FileRefuses \/ NotFound \/ LinkEscapes \/ StatRefuses \/ OpenFails \/ ReadRefuses \/ IOError
  <2>1. Answers(Failed) \/ Answers(Rejected)
    BY <1>3 DEF FileRefuses, NotFound, LinkEscapes, StatRefuses, OpenFails, ReadRefuses, IOError
  <2>2. pc # "returned" /\ Len(asked) < Len(chain)
    BY <1>3 DEF FileRefuses, NotFound, LinkEscapes, StatRefuses, OpenFails, ReadRefuses, IOError,
                Asking, ChainInv
  <2>3. Failed.kind # "rejected"
    BY DEF Failed
  <2>4. QED
    BY <2>1, <2>2, <2>3, AnswerStep
<1>4. CASE Read
  <2>1. Answers(Data(opened, ReadAll, size[opened])) /\ Data(opened, ReadAll, size[opened]).kind # "rejected"
    BY <1>4 DEF Read, Data
  <2>2. pc # "returned" /\ Len(asked) < Len(chain)
    BY <1>4 DEF Read, ChainInv
  <2>3. QED
    BY <2>1, <2>2, AnswerStep
<1>5. CASE ResolveRoot
  BY <1>5, QuietStep DEF ResolveRoot, Asking
<1>6. CASE ResolvePath \/ Stat \/ Open
  <2>1. pc \in {"path", "stat", "open"} /\ pc' \in {"stat", "open", "read"}
    BY <1>6 DEF ResolvePath, Stat, Open
  <2>2. UNCHANGED <<chain, asked, ret>>
    BY <1>6 DEF ResolvePath, Stat, Open
  <2>3. QED
    BY <2>1, <2>2, QuietStep DEF ChainInv
<1>7. CASE World \/ UNCHANGED vars
  <2>1. UNCHANGED <<chain, asked, ret, pc>>
    BY <1>7 DEF World, Swap, Grow, MoveRoot, Changes, vars, loaderVars
  <2>2. QED
    BY <2>1 DEF ChainInv, FailureSurfaces
<1>8. QED
  BY <1>1, <1>2, <1>3, <1>4, <1>5, <1>6, <1>7 DEF Next, LoaderStep

LEMMA ChainBegins == Init => ChainInv
<1> SUFFICES ASSUME Init PROVE ChainInv
  OBVIOUS
<1>1. Len(chain) \in Nat /\ asked = <<>> /\ pc = "next"
  BY ChainAssumption DEF Init
<1>2. QED
  BY <1>1 DEF Init, ChainInv, FailureSurfaces

(* However long the chain and whatever its loaders answer, a document comes    *)
(* from the first that does not reject the URI, a failure ends the chain, and  *)
(* a rejection is returned only when every loader has rejected.                *)
THEOREM ChainOrder == Spec => []FailureSurfaces
<1>1. Init => ChainInv
  BY ChainBegins
<1>2. ChainInv /\ [Next]_vars => ChainInv'
  BY ChainStep
<1>3. ChainInv => FailureSurfaces
  BY DEF ChainInv
<1>4. QED
  BY <1>1, <1>2, <1>3, PTL DEF Spec

-----------------------------------------------------------------------------
(* Paths *)

TreeType == [Dir -> [Name -> Entry]]

(* Where following links can lead: anywhere, or in one directory.              *)
Places(dirs) == {None} \cup {Link(d, n) : d \in dirs, n \in Name}

LEMMA FollowTyped ==
  ASSUME tree \in TreeType, NEW confined \in BOOLEAN, NEW dirs \in SUBSET Dir,
         confined \/ dirs = Dir, NEW p \in Places(dirs)
  PROVE  Follow(confined, p) \in Places(dirs)
<1>1. CASE p = None \/ At(p) \in File
  BY <1>1 DEF Follow
<1>2. CASE p # None /\ At(p) \notin File
  <2>1. PICK d \in dirs, n \in Name : p = Link(d, n)
    BY <1>2 DEF Places
  <2>2. At(p) = tree[d][n] /\ p.dir = d /\ tree[d][n] \in Entry
    BY <2>1 DEF At, Link, TreeType
  <2>3. CASE At(p) = None
    BY <1>2, <2>3 DEF Follow, Places
  <2>4. CASE At(p) # None
    <3>1. PICK e \in Dir, m \in Name : At(p) = Link(e, m)
      BY <1>2, <2>2, <2>4 DEF Entry
    <3>2. At(p).dir = e
      BY <3>1 DEF Link
    <3>3. QED
      BY <1>2, <2>2, <2>4, <3>1, <3>2 DEF Follow, Places
  <2>5. QED
    BY <2>3, <2>4
<1>3. QED
  BY <1>1, <1>2

(* A path ends nowhere, or at a file in a directory it may lead to.            *)
LEMMA WalkEnds ==
  ASSUME tree \in TreeType, NEW confined \in BOOLEAN, NEW dirs \in SUBSET Dir,
         confined \/ dirs = Dir, NEW d \in dirs, NEW n \in Name
  PROVE  \/ Walk(confined, d, n) = None
         \/ \E e \in dirs, m \in Name : Walk(confined, d, n) = Link(e, m) /\ tree[e][m] \in File
<1> DEFINE S == Places(dirs)
           max == MaxLinks
           go(p) == Follow(confined, p)
           Def(f) == f = [i \in 0..max |-> IF i = 0 THEN Link(d, n) ELSE go(f[i - 1])]
           step == [i \in 1..max |-> [p \in S |-> go(p)]]
<1>1. max \in Nat /\ Link(d, n) \in S
  BY NatAssumption DEF Places
<1>2. \A p \in S : go(p) \in S
  BY FollowTyped
<1> HIDE DEF S, go, max
<1>3. step \in [1..max -> [S -> S]]
  BY <1>2
<1>4. \E f : Def(f)
  <2>1. PICK f \in [0..max -> S] : Recurs(f, Link(d, n), max, step)
    <3> HIDE DEF step
    <3>1. QED
      BY ONLY <1>1, <1>3, RecursiveFunction
  <2>2. f = [i \in 0..max |-> IF i = 0 THEN Link(d, n) ELSE step[i][f[i - 1]]]
    BY <2>1 DEF Recurs
  <2>3. \A i \in 0..max : i # 0 => step[i][f[i - 1]] = go(f[i - 1])
    <3> SUFFICES ASSUME NEW i \in 0..max, i # 0 PROVE step[i][f[i - 1]] = go(f[i - 1])
      OBVIOUS
    <3>1. i \in 1..max /\ i - 1 \in 0..max
      BY <1>1
    <3>2. f[i - 1] \in S
      BY <2>1, <3>1
    <3>3. QED
      BY <3>1, <3>2
  <2> HIDE DEF step
  <2>4. Def(f)
    BY <2>2, <2>3
  <2>5. QED
    BY <2>4
<1> DEFINE after == CHOOSE f : Def(f)
<1>5. Def(after)
  BY <1>4
<1>6. Walk(confined, d, n) =
        IF after[max] # None /\ At(after[max]) \in File THEN after[max] ELSE None
  BY DEF Walk, go, max
<1> HIDE DEF after, step
<1> DEFINE I == {i \in Nat : i <= max => after[i] \in S}
<1>7. 0 \in I
  BY <1>1, <1>5
<1>8. ASSUME NEW i \in Nat, i \in I
      PROVE  i + 1 \in I
  <2> SUFFICES ASSUME i + 1 <= max PROVE after[i + 1] \in S
    OBVIOUS
  <2>1. after[i] \in S /\ i + 1 \in 0..max /\ i + 1 - 1 = i /\ i + 1 # 0
    BY <1>1, <1>8
  <2>2. after[i + 1] = go(after[i])
    <3>1. \A j \in 0..max : j # 0 => after[j] = go(after[j - 1])
      BY <1>5
    <3> HIDE DEF Def
    <3>2. PICK j \in 0..max : j = i + 1 /\ j # 0 /\ j - 1 = i
      BY <2>1
    <3>3. after[j] = go(after[j - 1])
      BY <3>1, <3>2
    <3>4. QED
      BY <3>2, <3>3
  <2>3. QED
    BY <1>2, <2>1, <2>2
<1> HIDE DEF I, Def
<1>9. after[max] \in S
  <2>1. max \in I
    BY <1>1, <1>7, <1>8, SetInduction
  <2>2. QED
    BY <1>1, <2>1 DEF I
<1>10. CASE after[max] # None /\ At(after[max]) \in File
  BY <1>6, <1>9, <1>10 DEF S, Places, At, Link
<1>11. QED
  BY <1>6, <1>10

(* A path that is not confined may end in any directory, *)
LEMMA FreeEnds ==
  ASSUME tree \in TreeType, NEW d \in Dir, NEW n \in Name
  PROVE  \/ Walk(FALSE, d, n) = None
         \/ \E e \in Dir, m \in Name : Walk(FALSE, d, n) = Link(e, m) /\ tree[e][m] \in File
<1>1. \A c \in BOOLEAN :
        \/ Walk(c, d, n) = None
        \/ \E e \in Dir, m \in Name : Walk(c, d, n) = Link(e, m) /\ tree[e][m] \in File
  BY WalkEnds
<1>2. QED
  BY <1>1, Zenon

(* one in a root only there. *)
LEMMA ConfinedEnds ==
  ASSUME tree \in TreeType, NEW d \in Roots, NEW n \in Name
  PROVE  \/ Walk(TRUE, d, n) = None
         \/ \E m \in Name : Walk(TRUE, d, n) = Link(d, m) /\ tree[d][m] \in File
<1>1. {d} \in SUBSET Dir /\ d \in {d}
  BY DEF Dir
<1>2. \A c \in BOOLEAN :
        c => \/ Walk(c, d, n) = None
             \/ \E e \in {d}, m \in Name : Walk(c, d, n) = Link(e, m) /\ tree[e][m] \in File
  BY <1>1, WalkEnds
<1>3. \/ Walk(TRUE, d, n) = None
      \/ \E e \in {d}, m \in Name : Walk(TRUE, d, n) = Link(e, m) /\ tree[e][m] \in File
  BY <1>2, Zenon
<1>4. QED
  BY <1>3

-----------------------------------------------------------------------------
(* What FileLoader and DefaultLoader return *)

(* A chain of one DefaultLoader asks nobody else. *)
LEMMA OnlyDefault ==
  ASSUME ChainInv, chain = <<"default">>, NEW kind, Asking(kind)
  PROVE  kind = "default"
<1>1. Len(asked) \in Nat /\ Len(asked) < 1
  BY DEF ChainInv, Asking
<1>2. Len(asked) + 1 = 1
  BY <1>1
<1>3. QED
  BY <1>2 DEF Asking

LEMMA FileAnswer ==
  ASSUME FileInv, NEW r, Answers(r),
         chain = <<"default">> => r = DefaultLoad(uri),
         r.kind = "data" /\ r.what \in File =>
             /\ r.what \in Content /\ Kind[r.what] = "regular"
             /\ r.bytes = r.of /\ r.of <= MaxSize
  PROVE  FileInv'
<1>1. UNCHANGED <<chain, uri, world>> /\ pc' \in {"next", "returned"}
  BY DEF Answers
<1>2. pc' = "returned" => ret' = r
  BY DEF Answers
<1>3. DefaultLoad(uri)' = DefaultLoad(uri)
  BY <1>1 DEF DefaultLoad, MapLoad, Finds, KeyOf
<1>4. QED
  BY <1>1, <1>2, <1>3 DEF FileInv, OnlyWholeFilesOfRoot, world

(* No other loader's document is a file. *)
LEMMA NoFile ==
  ASSUME FileInv
  PROVE  /\ \A map : MapLoad(map, uri).kind = "data" => MapLoad(map, uri).what \notin File
         /\ EmbedLoad(uri).kind = "data" => EmbedLoad(uri).what \notin File
<1>1. uri.what \notin File
  BY RequestAssumption DEF FileInv
<1>2. QED
  BY <1>1 DEF MapLoad, EmbedLoad, Data, Failed, Rejected

LEMMA FileStep ==
  ASSUME ChainInv, FileInv, [Next]_vars
  PROVE  FileInv'
<1>1. CASE EmptyChain
  <2>1. chain # <<"default">> /\ Rejected.kind # "data"
    BY <1>1 DEF EmptyChain, Rejected
  <2>2. QED
    BY <1>1, <2>1 DEF EmptyChain, FileInv, OnlyWholeFilesOfRoot, world
<1>2. CASE AskMap \/ AskEmbed \/ AskDisabled
  <2>1. chain # <<"default">>
    BY <1>2, OnlyDefault DEF AskMap, AskEmbed, AskDisabled
  <2>2. QED
    BY <1>2, <2>1, NoFile, FileAnswer DEF AskMap, AskEmbed, AskDisabled, Rejected
<1>3. CASE AskDefault
  <2>1. DefaultLoad(uri).kind = "data" => DefaultLoad(uri).what \notin File
    BY NoFile DEF DefaultLoad
  <2>2. QED
    BY <1>3, <2>1, FileAnswer DEF AskDefault
<1>4. CASE FileRefuses \/ NotFound \/ LinkEscapes \/ StatRefuses \/ OpenFails \/ ReadRefuses \/ IOError
  <2>1. Answers(Failed) \/ Answers(Rejected)
    BY <1>4 DEF FileRefuses, NotFound, LinkEscapes, StatRefuses, OpenFails, ReadRefuses, IOError
  <2>2. chain # <<"default">>
    <3>1. pc \in {"path", "stat", "open", "read"} \/ Asking("file")
      BY <1>4 DEF FileRefuses, NotFound, LinkEscapes, StatRefuses, OpenFails, ReadRefuses, IOError
    <3>2. QED
      BY <3>1, OnlyDefault DEF FileInv
  <2>3. Failed.kind # "data" /\ Rejected.kind # "data"
    BY DEF Failed, Rejected
  <2>4. QED
    BY <2>1, <2>2, <2>3, FileAnswer
<1>5. CASE ResolveRoot
  <2>1. chain # <<"default">>
    BY <1>5, OnlyDefault DEF ResolveRoot
  <2>2. uri.what \in Name
    BY <1>5, RequestAssumption DEF ResolveRoot, Escapes, FileInv
  <2>3. QED
    BY <1>5, <2>1, <2>2 DEF ResolveRoot, FileInv, OnlyWholeFilesOfRoot, world
<1>6. CASE ResolvePath
  <2> DEFINE end == evalSymlinks(rootAt, uri.what)
  <2>1. rootAt \in Dir /\ uri.what \in Name /\ tree \in TreeType
    BY <1>6 DEF ResolvePath, FileInv, TreeType, Dir
  <2>2. end = None \/ \E e \in Dir, m \in Name : end = Link(e, m)
    BY <2>1, FreeEnds DEF evalSymlinks
  <2>3. path' \in Name
    <3>1. end # None /\ path' = end.name
      BY <1>6 DEF ResolvePath
    <3>2. PICK e \in Dir, m \in Name : end = Link(e, m)
      BY <2>2, <3>1
    <3>3. QED
      BY <3>1, <3>2 DEF Link
  <2>4. QED
    BY <1>6, <2>3 DEF ResolvePath, FileInv, OnlyWholeFilesOfRoot, world
<1>7. CASE Stat
  BY <1>7 DEF Stat, FileInv, OnlyWholeFilesOfRoot, world
<1>8. CASE Open
  <2>1. root \in Roots /\ path \in Name /\ tree \in TreeType
    BY <1>8 DEF Open, FileInv, TreeType
  <2>2. InRoot(root, path) # None
    BY <1>8 DEF Open
  <2>3. PICK m \in Name : InRoot(root, path) = Link(root, m) /\ tree[root][m] \in File
    BY <2>1, <2>2, ConfinedEnds DEF InRoot
  <2>4. opened' = tree[root][m]
    BY <1>8, <2>2, <2>3 DEF Open, FileAt, At, Link
  <2>5. tree[root][m] \in Content
    BY <2>1, <2>3 DEF FileInv
  <2>6. QED
    BY <1>8, <2>3, <2>4, <2>5 DEF Open, FileInv, OnlyWholeFilesOfRoot, world
<1>9. CASE Read
  <2> DEFINE r == Data(opened, ReadAll, size[opened])
  <2>1. opened \in File \cap Content /\ Kind[opened] = "regular" /\ chain # <<"default">>
    BY <1>9 DEF Read, Regular, FileInv
  <2>2. size[opened] \in Nat /\ MaxSize \in Nat
    BY <2>1, NatAssumption DEF FileInv
  <2>3. ReadAll = size[opened] /\ size[opened] <= MaxSize
    BY <1>9, <2>2 DEF Read, ReadAll
  <2>4. /\ r.what = opened /\ r.bytes = ReadAll /\ r.of = size[opened]
    BY DEF Data
  <2>5. Answers(r)
    BY <1>9 DEF Read
  <2> HIDE DEF r
  <2>6. QED
    BY <2>1, <2>3, <2>4, <2>5, FileAnswer
<1>10. CASE World
  <2>1. UNCHANGED <<chain, uri, loaderVars>> /\ pc \in {"path", "stat", "open", "read"}
    BY <1>10 DEF World, Swap, Grow, MoveRoot, Changes
  <2>2. rootAt' \in Roots
    BY <1>10 DEF World, Swap, Grow, MoveRoot, FileInv
  <2>3. size' \in [File -> Nat]
    BY <1>10 DEF World, Swap, Grow, MoveRoot, FileInv
  <2>4. /\ tree' \in [Dir -> [Name -> Entry]]
        /\ \A d \in Roots, n \in Name : tree'[d][n] \in Content
    <3>1. CASE tree' = tree
      BY <3>1 DEF FileInv
    <3>2. CASE tree' # tree
      <4>1. PICK e \in Roots, m \in Name, entry \in Content : tree' = [tree EXCEPT ![e][m] = entry]
        BY <1>10, <3>2 DEF World, Swap, Grow, MoveRoot
      <4>2. entry \in Entry /\ e \in Dir
        BY TreeAssumption DEF Dir
      <4>3. QED
        BY <4>1, <4>2 DEF FileInv
    <3>3. QED
      BY <3>1, <3>2
  <2>5. QED
    BY <2>1, <2>2, <2>3, <2>4 DEF FileInv, OnlyWholeFilesOfRoot, loaderVars
<1>11. CASE UNCHANGED vars
  <2>1. DefaultLoad(uri)' = DefaultLoad(uri)
    BY <1>11 DEF vars, DefaultLoad, MapLoad, Finds, KeyOf
  <2>2. QED
    BY <1>11, <2>1 DEF vars, loaderVars, world, FileInv, OnlyWholeFilesOfRoot
<1>12. QED
  BY <1>1, <1>2, <1>3, <1>4, <1>5, <1>6, <1>7, <1>8, <1>9, <1>10, <1>11 DEF Next, LoaderStep

LEMMA FileInit == Init => FileInv
<1> SUFFICES ASSUME Init PROVE FileInv
  OBVIOUS
<1>1. tree \in [Dir -> [Name -> Entry]] /\ \A d \in Roots, n \in Name : tree[d][n] \in Content
  BY TreeAssumption DEF Init
<1>2. QED
  BY <1>1 DEF Init, FileInv, OnlyWholeFilesOfRoot

LEMMA FileAlways == Spec => []FileInv
<1>1. Init => ChainInv
  BY ChainBegins
<1>2. QED
  BY <1>1, ChainStep, FileInit, FileStep, PTL DEF Spec

(* Whatever is swapped, linked, moved or written between its calls, FileLoader *)
(* returns a regular file that was put into a directory Root led to, never one *)
(* from elsewhere, and all of it.                                              *)
THEOREM FilesStayInside == Spec => []OnlyWholeFilesOfRoot
<1>1. FileInv => OnlyWholeFilesOfRoot
  BY DEF FileInv
<1>2. QED
  BY <1>1, FileAlways, PTL

(* An embedded document is found under the keys of its own, with the other     *)
(* scheme for a draft, and with or without the #.                              *)
LEMMA FindsMeta ==
  ASSUME NEW u, u.hash \in BOOLEAN
  PROVE  Finds(embeddedMetaMapLoader, KeyOf(u)) <=>
            \/ u.scheme \in {"http", "https"} /\ u.what \in {k.what : k \in Drafts}
            \/ u.scheme = "https" /\ u.what \in {k.what : k \in Vocabularies}
<1>3. \A a, w, h :
        /\ Unhashed(Key(a, w, h)) = Key(a, w, ~h)
        /\ Swapped(Key(a, w, h)) = Key(IF a = "http" THEN "https" ELSE "http", w, h)
  BY DEF Unhashed, Swapped, Key
<1>4. \A a, b, v, w, h, i : Key(a, v, h) = Key(b, w, i) <=> a = b /\ v = w /\ h = i
  BY DEF Key
<1> DEFINE k == KeyOf(u)
           other == Key(u.scheme, u.what, ~u.hash)
           Of(d) == {d, Unhashed(d), Swapped(d)}
           Both(d) == {d, Unhashed(d)}
<1>5. Finds(embeddedMetaMapLoader, k) <=>
        k \in embeddedMetaMapLoader \/ other \in embeddedMetaMapLoader
  BY DEF Finds, KeyOf, Key
<1>6. \A x : x \in embeddedMetaMapLoader <=>
             (\E d \in Drafts : x \in Of(d)) \/ (\E d \in Vocabularies : x \in Both(d))
  BY DEF embeddedMetaMapLoader
<1>7. ASSUME NEW a \in {"http", "https"}, NEW w, NEW h \in BOOLEAN
      PROVE  LET d == Key(a, w, h)
             IN  /\ (k \in Of(d) \/ other \in Of(d)) <=>
                       u.scheme \in {"http", "https"} /\ u.what = d.what
                 /\ (k \in Both(d) \/ other \in Both(d)) <=> u.scheme = a /\ u.what = d.what
  <2>1. /\ Unhashed(Key(a, w, h)) = Key(a, w, ~h)
        /\ Swapped(Key(a, w, h)) = Key(IF a = "http" THEN "https" ELSE "http", w, h)
        /\ Key(a, w, h).what = w
    BY <1>3 DEF Key
  <2>2. k = Key(u.scheme, u.what, u.hash)
    BY DEF KeyOf
  <2> DEFINE b == IF a = "http" THEN "https" ELSE "http"
             d == Key(a, w, h)
  <2>3. Of(d) = {d, Key(a, w, ~h), Key(b, w, h)} /\ Both(d) = {d, Key(a, w, ~h)}
    BY <2>1
  <2>4. (u.hash = h /\ (~u.hash) = (~h)) \/ (u.hash = (~h) /\ (~u.hash) = h)
    OBVIOUS
  <2>5. k \in Both(d) \/ other \in Both(d) <=> u.scheme = a /\ u.what = w
    <3> HIDE DEF Of
    <3>1. CASE u.hash = h /\ (~u.hash) = (~h)
      BY <1>4, <2>2, <2>3, <3>1
    <3>2. CASE u.hash = (~h) /\ (~u.hash) = h
      BY <1>4, <2>2, <2>3, <3>2
    <3>3. QED
      BY <2>4, <3>1, <3>2
  <2>6. k \in Of(d) \/ other \in Of(d) <=> (u.scheme = a \/ u.scheme = b) /\ u.what = w
    <3>1. CASE u.hash = h /\ (~u.hash) = (~h)
      BY <1>4, <2>2, <2>3, <3>1
    <3>2. CASE u.hash = (~h) /\ (~u.hash) = h
      BY <1>4, <2>2, <2>3, <3>2
    <3>3. QED
      BY <2>4, <3>1, <3>2
  <2>7. (u.scheme = a \/ u.scheme = b) <=> u.scheme \in {"http", "https"}
    OBVIOUS
  <2> HIDE DEF k, other, Of, Both, b
  <2>8. QED
    BY <2>1, <2>5, <2>6, <2>7
<1>8. /\ \A d \in Drafts : (k \in Of(d) \/ other \in Of(d)) <=>
                           u.scheme \in {"http", "https"} /\ u.what = d.what
      /\ \A d \in Vocabularies : (k \in Both(d) \/ other \in Both(d)) <=>
                           u.scheme = "https" /\ u.what = d.what
  <2>1. ASSUME NEW d \in Drafts
        PROVE  \E a \in {"http", "https"}, h \in BOOLEAN : \E w : d = Key(a, w, h)
    BY DEF Drafts
  <2>2. ASSUME NEW d \in Vocabularies
        PROVE  \E w : d = Key("https", w, FALSE)
    BY DEF Vocabularies
  <2> HIDE DEF k, other, Of, Both
  <2>3. ASSUME NEW d \in Drafts
        PROVE  (k \in Of(d) \/ other \in Of(d)) <=>
                   u.scheme \in {"http", "https"} /\ u.what = d.what
    <3>1. PICK a \in {"http", "https"}, h \in BOOLEAN : \E w : d = Key(a, w, h)
      BY <2>1
    <3>2. PICK w : d = Key(a, w, h)
      BY <3>1
    <3>3. QED
      BY <1>7, <3>2, Zenon
  <2>4. ASSUME NEW d \in Vocabularies
        PROVE  (k \in Both(d) \/ other \in Both(d)) <=> u.scheme = "https" /\ u.what = d.what
    <3>1. PICK w : d = Key("https", w, FALSE)
      BY <2>2
    <3>2. FALSE \in BOOLEAN /\ "https" \in {"http", "https"}
      OBVIOUS
    <3>3. QED
      BY <1>7, <3>1, <3>2, Zenon
  <2>5. QED
    BY <2>3, <2>4
<1> HIDE DEF k, other, Of, Both
<1>9. /\ u.what \in {d.what : d \in Drafts} <=> \E d \in Drafts : u.what = d.what
      /\ u.what \in {d.what : d \in Vocabularies} <=> \E d \in Vocabularies : u.what = d.what
  OBVIOUS
<1>10. (k \in embeddedMetaMapLoader \/ other \in embeddedMetaMapLoader) <=>
         \/ \E d \in Drafts : k \in Of(d) \/ other \in Of(d)
         \/ \E d \in Vocabularies : k \in Both(d) \/ other \in Both(d)
  BY <1>6, Zenon
<1>11. (k \in embeddedMetaMapLoader \/ other \in embeddedMetaMapLoader) <=>
         \/ \E d \in Drafts : u.scheme \in {"http", "https"} /\ u.what = d.what
         \/ \E d \in Vocabularies : u.scheme = "https" /\ u.what = d.what
  BY <1>8, <1>10, Zenon
<1>12. QED
  <2>1. Finds(embeddedMetaMapLoader, KeyOf(u)) <=>
          \/ \E d \in Drafts : u.scheme \in {"http", "https"} /\ u.what = d.what
          \/ \E d \in Vocabularies : u.scheme = "https" /\ u.what = d.what
    BY <1>5, <1>11 DEF k
  <2>2. QED
    BY <1>9, <2>1, Zenon

(* DefaultLoader answers with what is embedded, whatever the spelling, and     *)
(* with nothing else.                                                          *)
THEOREM MetaServed == Spec => []MetaOffline
<1>1. FileInv => MetaOffline
  <2> SUFFICES ASSUME FileInv, pc = "returned", chain = <<"default">>
               PROVE  /\ (ret.kind = "data") <=>
                            \/ uri.scheme \in {"http", "https"} /\ uri.what \in {k.what : k \in Drafts}
                            \/ uri.scheme = "https" /\ uri.what \in {k.what : k \in Vocabularies}
                      /\ ret.kind = "data" => ret.what = uri.what
    BY DEF MetaOffline, OfEmbedded
  <2>1. ret = DefaultLoad(uri) /\ uri.hash \in BOOLEAN
    BY RequestAssumption DEF FileInv
  <2>2. (ret.kind = "data") <=> Finds(embeddedMetaMapLoader, KeyOf(uri))
    BY <2>1 DEF DefaultLoad, MapLoad, Data, Rejected
  <2>3. ret.kind = "data" => ret.what = uri.what
    BY <2>1 DEF DefaultLoad, MapLoad, Data, Rejected
  <2>4. QED
    BY <2>1, <2>2, <2>3, FindsMeta
<1>2. QED
  BY <1>1, FileAlways, PTL
=============================================================================
